---- MODULE Spec2Model ----
(***************************************************************************)
(* strateplan: the data layer of a strategic-planning CLI.                 *)
(*                                                                         *)
(* Plans -> Issues -> KPIs / Initiatives are rows of four SQLite tables    *)
(* (strateplan/db.py), wrapped by one model class per table                *)
(* (strateplan/models) and validated by one service per table              *)
(* (strateplan/services, strateplan/utils/validator.py).                   *)
(*                                                                         *)
(* Python values are modelled boxed: None is the empty tuple and a value v *)
(* is the one-element tuple <<v>>, so that every column and every argument *)
(* can be absent.  A date string "YYYY-MM-DD" is the tuple of its numeric  *)
(* fields <<y, m, d>>; a string of another shape is a tuple of another     *)
(* length ("" is <<>>).                                                    *)
(***************************************************************************)
EXTENDS Integers, Sequences, FiniteSets, TLC

VARIABLES
    db,     \* the SQLite file: the four tables and sqlite_sequence
    clock,  \* the wall clock read by CURRENT_TIMESTAMP and datetime.now()
    pre,    \* the tables as they were when the last operation was called
    ret,    \* the last operation: its name, arguments and what it returned
    gateway \* the process's Database objects, their connection, the schema

vars == <<db, clock, pre, ret, gateway>>

----------------------------------------------------------------------------
(* Bounds of the model *)

MaxPlans == 2
MaxIssues == 2
MaxKpis == 1
MaxInitiatives == 1

\* SpecRepository
RepoMaxPlans == 1
RepoMaxIssues == 1
RepoMaxKpis == 1
RepoMaxInitiatives == 1

\* SpecDates: rows ever inserted, over all tables
DatesMaxRows == 3

\* SpecErrors: rows ever inserted, over all tables
ErrorsMaxRows == 3

\* SpecReorder: rows ever inserted, over all tables, and the length of the
\* list given to reorder_priorities
ReorderMaxRows == 4
ReorderMaxLen == 2

\* SpecReports: rows ever inserted, over all tables
ReportsMaxRows == 4

\* SpecStatus: rows ever inserted, over all tables
StatusMaxRows == 4

\* SpecSave: rows ever inserted, over all tables
SaveMaxRows == 3

\* SpecDatabase: rows ever inserted, over all tables
DatabaseMaxRows == 3

\* SpecOrder: rows ever inserted, over all tables
OrderMaxRows == 3

\* SpecBudget: rows ever inserted, over all tables
BudgetMaxRows == 4

\* SpecNames: rows ever inserted, over all tables
NamesMaxRows == 4

\* SpecGateway: rows ever inserted, over all tables
GatewayMaxRows == 2

\* SpecGateway, SpecSingleton: connections a process opens
MaxConnections == 2

\* SpecSingleton: rows ever inserted, over all tables
SingletonMaxRows == 2

\* SpecUpdate: rows ever inserted, over all tables
UpdateMaxRows == 3

----------------------------------------------------------------------------
(* Python values *)

None == <<>>
Some(v) == <<v>>
Val(x) == x[1]

Restrict(f, S) == [x \in S |-> f[x]]

\* a string that float() converts and SQLite keeps as text in a REAL column
TextFloat == <<"inf", "str", "float">>

\* a Python number, boxed; strings are written as longer tuples
IsNumber(value) == Len(value) = 1

\* float results, kept exact as fractions <<numerator, denominator>> in
\* lowest terms with a positive denominator
Abs(n) == IF n < 0 THEN -n ELSE n

RECURSIVE GCD(_, _)
GCD(a, b) == IF b = 0 THEN a ELSE GCD(b, a % b)

Fraction(n, d) ==
    LET g == GCD(Abs(n), Abs(d))
        sign == IF d < 0 THEN -1 ELSE 1
    IN  <<sign * (n \div g), sign * (d \div g)>>

FractionAdd(x, y) == Fraction(x[1] * y[2] + y[1] * x[2], x[2] * y[2])
FractionDiv(x, n) == Fraction(x[1], x[2] * n)
FractionGe(x, n) == x[1] >= n * x[2]

\* sum() of a list of numbers
RECURSIVE Sum(_)
Sum(seq) == IF Len(seq) = 0 THEN 0 ELSE Head(seq) + Sum(Tail(seq))

\* the concatenation of a list of lists
RECURSIVE Flatten(_)
Flatten(seqs) ==
    IF Len(seqs) = 0 THEN <<>> ELSE Head(seqs) \o Flatten(Tail(seqs))

----------------------------------------------------------------------------
(* strateplan/db.py: the schema *)

Tables == {"strategic_plans", "strategic_issues", "kpis", "initiatives"}

Columns(table) ==
    CASE table = "strategic_plans" ->
           {"id", "name", "description", "start_date", "end_date",
            "created_at", "updated_at"}
      [] table = "strategic_issues" ->
           {"id", "plan_id", "name", "description", "priority",
            "created_at", "updated_at"}
      [] table = "kpis" ->
           {"id", "issue_id", "name", "description", "target_value",
            "current_value", "unit", "created_at", "updated_at"}
      [] table = "initiatives" ->
           {"id", "issue_id", "name", "description", "status", "budget",
            "start_date", "end_date", "created_at", "updated_at"}

NotNullColumns(table) ==
    CASE table = "strategic_plans" -> {"name"}
      [] table = "strategic_issues" -> {"plan_id", "name"}
      [] table = "kpis" -> {"issue_id", "name"}
      [] table = "initiatives" -> {"issue_id", "name"}

\* the schema with strategic_issues declared without its FOREIGN KEY clause
ForeignKeys_issues_unbound ==
    { [table |-> "kpis", column |-> "issue_id", parent |-> "strategic_issues"],
      [table |-> "initiatives", column |-> "issue_id",
       parent |-> "strategic_issues"] }

\* the schema with initiatives declared without its FOREIGN KEY clause
ForeignKeys_initiatives_unbound ==
    { [table |-> "strategic_issues", column |-> "plan_id",
       parent |-> "strategic_plans"],
      [table |-> "kpis", column |-> "issue_id", parent |-> "strategic_issues"] }

\* FOREIGN KEY (column) REFERENCES parent (id) ON DELETE CASCADE
ForeignKeys ==
    { [table |-> "strategic_issues", column |-> "plan_id",
       parent |-> "strategic_plans"],
      [table |-> "kpis", column |-> "issue_id", parent |-> "strategic_issues"],
      [table |-> "initiatives", column |-> "issue_id",
       parent |-> "strategic_issues"] }

\* a connection on which the PRAGMA was never issued: SQLite's default
PRAGMA_foreign_keys_default == FALSE

\* Database.connect: PRAGMA foreign_keys = ON on the one connection
PRAGMA_foreign_keys == TRUE

\* a database whose tables were created by initialize_db and hold no row
EmptyDb ==
    [strategic_plans |-> <<>>, strategic_issues |-> <<>>, kpis |-> <<>>,
     initiatives |-> <<>>,
     sqlite_sequence |-> [t \in Tables |-> 0]]

\* the four tables without the AUTOINCREMENT bookkeeping
Rows(d) == [t \in Tables |-> d[t]]

\* the constraints SQLite checks on a row written to a table
ConstraintsHold(d, table, row) ==
    /\ \A c \in NotNullColumns(table) : row[c] # None
    /\ PRAGMA_foreign_keys =>
         \A fk \in ForeignKeys :
            (fk.table = table /\ row[fk.column] # None) =>
                Val(row[fk.column]) \in DOMAIN d[fk.parent]

\* Database.insert: INSERT INTO table (columns) VALUES (...); lastrowid
\* an insert into a table without AUTOINCREMENT: the id is one more than
\* the largest id stored
Database_insert_rowid(d, now, table, data) ==
    LET stored == {0} \cup DOMAIN d[table]
        id == (CHOOSE i \in stored : \A j \in stored : j <= i) + 1
        defaults == [c \in Columns(table) |->
                        IF c \in {"created_at", "updated_at"}
                        THEN Some(now) ELSE None]
        row == [id |-> Some(id)] @@ data @@ defaults
    IN  IF ConstraintsHold(d, table, row)
        THEN [db |-> [d EXCEPT ![table] = (id :> row) @@ @,
                               !.sqlite_sequence[table] =
                                   IF id > @ THEN id ELSE @],
              value |-> Some(id), raised |-> None]
        ELSE [db |-> d, value |-> None, raised |-> Some("IntegrityError")]

Database_insert(d, now, table, data) ==
    LET id == d.sqlite_sequence[table] + 1
        defaults == [c \in Columns(table) |->
                        IF c \in {"created_at", "updated_at"}
                        THEN Some(now) ELSE None]
        row == [id |-> Some(id)] @@ data @@ defaults
    IN  IF ConstraintsHold(d, table, row)
        THEN [db |-> [d EXCEPT ![table] = (id :> row) @@ @,
                               !.sqlite_sequence[table] = id],
              value |-> Some(id), raised |-> None]
        ELSE [db |-> d, value |-> None, raised |-> Some("IntegrityError")]

\* an update without the early return on empty data
Database_update_unguarded(d, table, id_value, data) ==
    IF id_value = None \/ Val(id_value) \notin DOMAIN d[table]
    THEN [db |-> d, value |-> FALSE, raised |-> None]
    ELSE LET row == data @@ d[table][Val(id_value)]
         IN  IF ConstraintsHold(d, table, row)
             THEN [db |-> [d EXCEPT ![table][Val(id_value)] = row],
                   value |-> TRUE, raised |-> None]
             ELSE [db |-> d, value |-> FALSE,
                   raised |-> Some("IntegrityError")]

\* Database.update: UPDATE table SET ... WHERE id = ?; rowcount > 0
Database_update(d, table, id_value, data) ==
    IF DOMAIN data = {}
    THEN [db |-> d, value |-> FALSE, raised |-> None]
    ELSE IF id_value = None \/ Val(id_value) \notin DOMAIN d[table]
    THEN [db |-> d, value |-> FALSE, raised |-> None]
    ELSE LET row == data @@ d[table][Val(id_value)]
         IN  IF ConstraintsHold(d, table, row)
             THEN [db |-> [d EXCEPT ![table][Val(id_value)] = row],
                   value |-> TRUE, raised |-> None]
             ELSE [db |-> d, value |-> FALSE,
                   raised |-> Some("IntegrityError")]

RECURSIVE DeleteRows(_, _, _)
RECURSIVE CascadeInto(_, _, _)

\* the ON DELETE CASCADE of every table that references one of the rows ids
CascadeInto(d, fks, ids) ==
    IF fks = {} THEN d
    ELSE LET fk == CHOOSE k \in fks : TRUE
             hit == {i \in DOMAIN d[fk.table] :
                        /\ d[fk.table][i][fk.column] # None
                        /\ Val(d[fk.table][i][fk.column]) \in ids}
         IN  CascadeInto(DeleteRows(d, fk.table, hit), fks \ {fk}, ids)

\* DELETE of the rows ids of a table, with what the foreign keys make follow
DeleteRows(d, table, ids) ==
    LET d1 == [d EXCEPT ![table] = Restrict(@, DOMAIN @ \ ids)]
    IN  IF PRAGMA_foreign_keys /\ ids # {}
        THEN CascadeInto(d1, {fk \in ForeignKeys : fk.parent = table}, ids)
        ELSE d1

\* Database.delete: DELETE FROM table WHERE id = ?; rowcount > 0
Database_delete(d, table, id_value) ==
    IF id_value = None \/ Val(id_value) \notin DOMAIN d[table]
    THEN [db |-> d, value |-> FALSE]
    ELSE [db |-> DeleteRows(d, table, {Val(id_value)}), value |-> TRUE]

\* Database.fetch_one of "SELECT * FROM table WHERE id = ?"
Database_fetch_one(d, table, id_value) ==
    IF id_value # None /\ Val(id_value) \in DOMAIN d[table]
    THEN Some(d[table][Val(id_value)])
    ELSE None

\* The Database object of a process and the file it opens:
\*   instances      Database objects constructed by the process
\*   connections    sqlite3.connect calls made by the process
\*   conn           self.conn: None, an open or a closed connection
\*   is_initialized self.is_initialized
\*   tables         whether the file holds the four tables
Database_init(g) ==
    [g EXCEPT !.instances = @ + 1, !.conn = None, !.is_initialized = FALSE]

Database_connect(g) ==
    [g EXCEPT !.conn = Some("open"), !.connections = @ + 1]

\* conn.close() leaves self.conn set
Database_close(g) ==
    IF g.conn # None THEN [g EXCEPT !.conn = Some("closed")] ELSE g

\* CREATE TABLE IF NOT EXISTS on a closed connection raises
Database_initialize_db(g) ==
    LET g1 == IF g.conn = None THEN Database_connect(g) ELSE g
    IN  IF g.is_initialized THEN [gateway |-> g, raised |-> None]
        ELSE IF g1.conn = Some("closed")
        THEN [gateway |-> g1, raised |-> Some("ProgrammingError")]
        ELSE [gateway |-> [g1 EXCEPT !.tables = TRUE,
                                     !.is_initialized = TRUE],
              raised |-> None]

\* the head of a primitive: "if not self.conn: self.connect()" and, where
\* the primitive has it, "if not self.is_initialized: self.initialize_db()"
Lazily(g, initializes) ==
    LET g1 == IF g.conn = None THEN Database_connect(g) ELSE g
    IN  IF initializes /\ ~g1.is_initialized
        THEN Database_initialize_db(g1)
        ELSE [gateway |-> g1, raised |-> None]

\* cursor.execute of a statement on the four tables whose effect on an
\* open connection to a file with the tables is r
Cursor(head, d, r) ==
    LET failed(exception) ==
            [gateway |-> head.gateway, db |-> d, value |-> None,
             raised |-> Some(exception)]
    IN  IF head.raised # None THEN failed(Val(head.raised))
        ELSE IF head.gateway.conn = Some("closed")
        THEN failed("ProgrammingError")
        ELSE IF ~head.gateway.tables THEN failed("OperationalError")
        ELSE [gateway |-> head.gateway, db |-> r.db, value |-> r.value,
              raised |-> r.raised]

\* a get_db that builds a Database on every call
get_db_anew(g) ==
    Database_initialize_db(Database_connect(Database_init(g))).gateway

\* get_db: the module's single Database, built on the first call
get_db(g) ==
    IF g.instances = 0
    THEN Database_initialize_db(Database_connect(Database_init(g))).gateway
    ELSE g

\* what get_db() leaves: one Database, one open connection, the tables
Connected ==
    [instances |-> 1, connections |-> 1, conn |-> Some("open"),
     is_initialized |-> TRUE, tables |-> TRUE]

----------------------------------------------------------------------------
(* strateplan/utils/validator.py *)

\* a validator's result: (is_valid, error_message)
Valid == [valid |-> TRUE, error |-> None]
Invalid(msg) == [valid |-> FALSE, error |-> Some(msg)]

IsLeapYear(y) == (y % 4 = 0 /\ y % 100 # 0) \/ y % 400 = 0

DaysInMonth(y, m) ==
    IF m = 2 THEN (IF IsLeapYear(y) THEN 29 ELSE 28)
    ELSE IF m \in {4, 6, 9, 11} THEN 30 ELSE 31

\* re.match(r"^\d{4}-\d{2}-\d{2}$", s): three numeric fields
MatchesDatePattern(s) == Len(s) = 3

\* datetime.strptime(s, "%Y-%m-%d") succeeds: a day of the calendar
IsCalendarDate(s) ==
    /\ s[1] \in 1..9999
    /\ s[2] \in 1..12
    /\ s[3] \in 1..DaysInMonth(s[1], s[2])

\* a comparison that also holds of two equal dates
DateBefore_or_equal(a, b) ==
    \/ a[1] < b[1]
    \/ a[1] = b[1] /\ a[2] < b[2]
    \/ a[1] = b[1] /\ a[2] = b[2] /\ a[3] <= b[3]

\* datetime < datetime on two parsed dates
DateBefore(a, b) ==
    \/ a[1] < b[1]
    \/ a[1] = b[1] /\ a[2] < b[2]
    \/ a[1] = b[1] /\ a[2] = b[2] /\ a[3] < b[3]

validate_date(date_str) ==
    IF date_str = None THEN Valid
    ELSE IF ~MatchesDatePattern(Val(date_str))
    THEN Invalid(<<"invalid date format, use YYYY-MM-DD">>)
    ELSE IF ~IsCalendarDate(Val(date_str))
    THEN Invalid(<<"invalid date">>)
    ELSE Valid

\* Python truth of an optional string: neither None nor ""
TruthyStr(s) == s # None /\ Val(s) # <<>>

\* "end < start": the one comparison validate_date_range makes
EndPrecedesStart(start_date, end_date) ==
    DateBefore(Val(end_date), Val(start_date))

validate_date_range(start_date, end_date) ==
    IF ~validate_date(start_date).valid
    THEN Invalid(<<"start date: ">> \o Val(validate_date(start_date).error))
    ELSE IF ~validate_date(end_date).valid
    THEN Invalid(<<"end date: ">> \o Val(validate_date(end_date).error))
    ELSE IF /\ TruthyStr(start_date) /\ TruthyStr(end_date)
            /\ EndPrecedesStart(start_date, end_date)
    THEN Invalid(<<"end date must not precede start date">>)
    ELSE Valid

\* float(value) succeeds: value is a boxed number or the string "inf", and
\* not a string such as "abc", which the model writes as a pair
Converts(value) == Len(value) # 2

\* min_value and max_value are boxed, None when the caller gives no bound
validate_numeric(value, min_value, max_value, allow_none) ==
    IF value = None
    THEN (IF allow_none THEN Valid ELSE Invalid(<<"value cannot be empty">>))
    ELSE IF ~Converts(value)
    THEN Invalid(<<"value must be a number">>)
    ELSE IF min_value # None /\ IsNumber(value)
            /\ Val(value) < Val(min_value)
    THEN Invalid(<<"value must not be less than min">>)
    ELSE IF max_value # None
            /\ (~IsNumber(value) \/ Val(value) > Val(max_value))
    THEN Invalid(<<"value must not be greater than max">>)
    ELSE Valid

\* len(text) of the model's strings: "" and one-character names
StrLen(text) == IF text = "" THEN 0 ELSE 1

\* a validation of text that accepts the empty string
validate_text_empty(text, min_length, max_length, allow_none) ==
    IF text = None
    THEN (IF allow_none THEN Valid ELSE Invalid(<<"text cannot be empty">>))
    ELSE Valid

validate_text(text, min_length, max_length, allow_none) ==
    IF text = None \/ text = Some("")
    THEN (IF allow_none THEN Valid ELSE Invalid(<<"text cannot be empty">>))
    ELSE IF min_length > 0 /\ StrLen(Val(text)) < min_length
    THEN Invalid(<<"text too short">>)
    ELSE IF max_length # None /\ StrLen(Val(text)) > Val(max_length)
    THEN Invalid(<<"text too long">>)
    ELSE Valid

validate_in_list(value, valid_values, allow_none) ==
    IF value = None
    THEN (IF allow_none THEN Valid ELSE Invalid(<<"value cannot be empty">>))
    ELSE IF Val(value) \notin valid_values
    THEN Invalid(<<"value must be one of the valid values">>)
    ELSE Valid

\* validate_id_exists that only rejects a missing id and never looks it up
validate_id_exists_unchecked(id_value, entity) ==
    IF id_value = None THEN Invalid(<<"ID cannot be empty">>) ELSE Valid

\* validate_id_exists(id_value, get_by_id_func); entity is what
\* get_by_id_func(id_value) returns
validate_id_exists(id_value, entity) ==
    IF id_value = None THEN Invalid(<<"ID cannot be empty">>)
    ELSE IF entity = None THEN Invalid(<<"ID not found">>)
    ELSE Valid

----------------------------------------------------------------------------
(* strateplan/models/strategic_plan.py *)

StrategicPlan_from_dict(data) ==
    [id |-> data.id, name |-> data.name, description |-> data.description,
     start_date |-> data.start_date, end_date |-> data.end_date,
     created_at |-> data.created_at, updated_at |-> data.updated_at]

\* a save that inserts whether or not the entity has an id
StrategicPlan_save_reinserted(d, now, self) ==
    Database_insert(d, now, "strategic_plans",
                    [name |-> self.name, description |-> self.description,
                     start_date |-> self.start_date,
                     end_date |-> self.end_date])

\* StrategicPlan.save: insert when the entity has no id, else update
StrategicPlan_save(d, now, self) ==
    LET data == [name |-> self.name, description |-> self.description,
                 start_date |-> self.start_date, end_date |-> self.end_date]
    IN  IF self.id = None
        THEN Database_insert(d, now, "strategic_plans", data)
        ELSE LET r == Database_update(d, "strategic_plans", self.id,
                          [updated_at |-> Some(now)] @@ data)
             IN  [db |-> r.db, value |-> self.id, raised |-> r.raised]

StrategicPlan_get_by_id(d, plan_id) ==
    LET result == Database_fetch_one(d, "strategic_plans", plan_id)
    IN  IF result # None THEN Some(StrategicPlan_from_dict(Val(result)))
        ELSE None

StrategicPlan_delete(d, self) ==
    IF self.id = None THEN [db |-> d, value |-> FALSE]
    ELSE Database_delete(d, "strategic_plans", self.id)

StrategicPlan_to_dict(self) ==
    [id |-> self.id, name |-> self.name, description |-> self.description,
     start_date |-> self.start_date, end_date |-> self.end_date,
     created_at |-> self.created_at, updated_at |-> self.updated_at]

----------------------------------------------------------------------------
(* strateplan/models/strategic_issue.py *)

StrategicIssue_from_dict(data) ==
    [id |-> data.id, plan_id |-> data.plan_id, name |-> data.name,
     description |-> data.description, priority |-> data.priority,
     created_at |-> data.created_at, updated_at |-> data.updated_at]

StrategicIssue_save(d, now, self) ==
    LET data == [plan_id |-> self.plan_id, name |-> self.name,
                 description |-> self.description,
                 priority |-> self.priority]
    IN  IF self.id = None
        THEN Database_insert(d, now, "strategic_issues", data)
        ELSE LET r == Database_update(d, "strategic_issues", self.id,
                          [updated_at |-> Some(now)] @@ data)
             IN  [db |-> r.db, value |-> self.id, raised |-> r.raised]

StrategicIssue_get_by_id(d, issue_id) ==
    LET result == Database_fetch_one(d, "strategic_issues", issue_id)
    IN  IF result # None THEN Some(StrategicIssue_from_dict(Val(result)))
        ELSE None

\* an ORDER BY id that leaves the priority out
OrderByIdAlone(a, b) == Val(a.id) < Val(b.id)

\* ORDER BY priority, id: NULL sorts before every number in SQLite
OrderByPriorityId(a, b) ==
    \/ a.priority = None /\ b.priority # None
    \/ a.priority # None /\ b.priority # None
         /\ Val(a.priority) < Val(b.priority)
    \/ a.priority = b.priority /\ Val(a.id) < Val(b.id)

OrderById(a, b) == Val(a.id) < Val(b.id)

\* the rows of a set in the order of a strict total order, smallest first
RECURSIVE SortedByPriorityId(_)
SortedByPriorityId(rows) ==
    IF rows = {} THEN <<>>
    ELSE LET first == CHOOSE r \in rows :
                         \A o \in rows \ {r} : OrderByPriorityId(r, o)
         IN  <<first>> \o SortedByPriorityId(rows \ {first})

RECURSIVE SortedById(_)
SortedById(rows) ==
    IF rows = {} THEN <<>>
    ELSE LET first == CHOOSE r \in rows :
                         \A o \in rows \ {r} : OrderById(r, o)
         IN  <<first>> \o SortedById(rows \ {first})

\* "SELECT * FROM table WHERE column = ?": the matching rows
SelectWhere(d, table, column, value) ==
    {d[table][i] : i \in {j \in DOMAIN d[table] :
                             value # None /\ d[table][j][column] = value}}

\* a listing of the issues of a plan in the order of their ids
StrategicIssue_get_by_plan_id_by_id(d, plan_id) ==
    LET results == SortedById(
                       SelectWhere(d, "strategic_issues", "plan_id", plan_id))
    IN  [i \in 1..Len(results) |-> StrategicIssue_from_dict(results[i])]

StrategicIssue_get_by_plan_id(d, plan_id) ==
    LET results == SortedByPriorityId(
                       SelectWhere(d, "strategic_issues", "plan_id", plan_id))
    IN  [i \in 1..Len(results) |-> StrategicIssue_from_dict(results[i])]

StrategicIssue_delete(d, self) ==
    IF self.id = None THEN [db |-> d, value |-> FALSE]
    ELSE Database_delete(d, "strategic_issues", self.id)

StrategicIssue_to_dict(self) ==
    [id |-> self.id, plan_id |-> self.plan_id, name |-> self.name,
     description |-> self.description, priority |-> self.priority,
     created_at |-> self.created_at, updated_at |-> self.updated_at]

----------------------------------------------------------------------------
(* strateplan/models/kpi.py *)

KPI_from_dict(data) ==
    [id |-> data.id, issue_id |-> data.issue_id, name |-> data.name,
     description |-> data.description, target_value |-> data.target_value,
     current_value |-> data.current_value, unit |-> data.unit,
     created_at |-> data.created_at, updated_at |-> data.updated_at]

KPI_save(d, now, self) ==
    LET data == [issue_id |-> self.issue_id, name |-> self.name,
                 description |-> self.description,
                 target_value |-> self.target_value,
                 current_value |-> self.current_value, unit |-> self.unit]
    IN  IF self.id = None
        THEN Database_insert(d, now, "kpis", data)
        ELSE LET r == Database_update(d, "kpis", self.id,
                          [updated_at |-> Some(now)] @@ data)
             IN  [db |-> r.db, value |-> self.id, raised |-> r.raised]

KPI_get_by_id(d, kpi_id) ==
    LET result == Database_fetch_one(d, "kpis", kpi_id)
    IN  IF result # None THEN Some(KPI_from_dict(Val(result))) ELSE None

KPI_get_by_issue_id(d, issue_id) ==
    LET results == SortedById(SelectWhere(d, "kpis", "issue_id", issue_id))
    IN  [i \in 1..Len(results) |-> KPI_from_dict(results[i])]

KPI_delete(d, self) ==
    IF self.id = None THEN [db |-> d, value |-> FALSE]
    ELSE Database_delete(d, "kpis", self.id)

KPI_to_dict(self) ==
    [id |-> self.id, issue_id |-> self.issue_id, name |-> self.name,
     description |-> self.description, target_value |-> self.target_value,
     current_value |-> self.current_value, unit |-> self.unit,
     created_at |-> self.created_at, updated_at |-> self.updated_at]

\* KPI.progress raises TypeError when it divides and a value is a string
KPI_progress_raises(self) ==
    /\ self.target_value # None
    /\ self.current_value # None
    /\ self.target_value # Some(0)
    /\ ~IsNumber(self.target_value) \/ ~IsNumber(self.current_value)

\* a progress that takes a current_value of 0 for an absent one
KPI_progress_falsy(self) ==
    IF self.target_value = None \/ self.current_value = None THEN None
    ELSE IF self.target_value = Some(0) \/ self.current_value = Some(0)
    THEN None
    ELSE Some(Fraction(Val(self.current_value) * 100,
                       Val(self.target_value)))

\* KPI.progress: (current_value / target_value) * 100, boxed, or None
KPI_progress(self) ==
    IF self.target_value = None \/ self.current_value = None THEN None
    ELSE IF self.target_value = Some(0) THEN None
    ELSE Some(Fraction(Val(self.current_value) * 100,
                       Val(self.target_value)))

----------------------------------------------------------------------------
(* strateplan/models/initiative.py *)

STATUS_NOT_STARTED == "NOT_STARTED"
STATUS_IN_PROGRESS == "IN_PROGRESS"
STATUS_COMPLETED == "COMPLETED"
STATUS_DELAYED == "DELAYED"
STATUS_CANCELLED == "CANCELLED"

VALID_STATUSES ==
    {STATUS_NOT_STARTED, STATUS_IN_PROGRESS, STATUS_COMPLETED,
     STATUS_DELAYED, STATUS_CANCELLED}

\* a constructor that keeps the status it is given
Initiative_init_kept(kw) == kw

\* Initiative.__init__ on its keyword arguments:
\* self.status = status or STATUS_NOT_STARTED
Initiative_init(kw) ==
    [kw EXCEPT !.status = IF @ = None \/ @ = Some("")
                          THEN Some(STATUS_NOT_STARTED) ELSE @]

Initiative_from_dict(data) ==
    Initiative_init(
        [id |-> data.id, issue_id |-> data.issue_id, name |-> data.name,
         description |-> data.description, status |-> data.status,
         budget |-> data.budget, start_date |-> data.start_date,
         end_date |-> data.end_date, created_at |-> data.created_at,
         updated_at |-> data.updated_at])

Initiative_save(d, now, self) ==
    LET data == [issue_id |-> self.issue_id, name |-> self.name,
                 description |-> self.description, status |-> self.status,
                 budget |-> self.budget, start_date |-> self.start_date,
                 end_date |-> self.end_date]
    IN  IF self.id = None
        THEN Database_insert(d, now, "initiatives", data)
        ELSE LET r == Database_update(d, "initiatives", self.id,
                          [updated_at |-> Some(now)] @@ data)
             IN  [db |-> r.db, value |-> self.id, raised |-> r.raised]

Initiative_get_by_id(d, initiative_id) ==
    LET result == Database_fetch_one(d, "initiatives", initiative_id)
    IN  IF result # None THEN Some(Initiative_from_dict(Val(result)))
        ELSE None

Initiative_get_by_issue_id(d, issue_id) ==
    LET results == SortedById(
                       SelectWhere(d, "initiatives", "issue_id", issue_id))
    IN  [i \in 1..Len(results) |-> Initiative_from_dict(results[i])]

Initiative_delete(d, self) ==
    IF self.id = None THEN [db |-> d, value |-> FALSE]
    ELSE Database_delete(d, "initiatives", self.id)

Initiative_to_dict(self) ==
    [id |-> self.id, issue_id |-> self.issue_id, name |-> self.name,
     description |-> self.description, status |-> self.status,
     budget |-> self.budget, start_date |-> self.start_date,
     end_date |-> self.end_date, created_at |-> self.created_at,
     updated_at |-> self.updated_at]

----------------------------------------------------------------------------
(* strateplan/services: what a service call returns and leaves behind *)

\* (value, None)
Ok(d, value, raised) ==
    [db |-> d, value |-> value, error |-> None, raised |-> raised]

\* an error return whose first component is always None
Err_none(d, value, message) ==
    [db |-> d, value |-> None, error |-> Some(message), raised |-> None]

\* (value, error_message), the database as it was handed in
Err(d, value, message) ==
    [db |-> d, value |-> value, error |-> Some(message), raised |-> None]

\* an exception leaves the service: nothing is returned
Raise(d, exception) ==
    [db |-> d, value |-> None, error |-> None, raised |-> Some(exception)]

\* init.budget or 0
BudgetOrZero(init) ==
    IF init.budget = None \/ init.budget = Some(0) THEN 0
    ELSE Val(init.budget)

\* a sum that stops after the first initiative
BudgetSum_first(initiatives) ==
    IF Len(initiatives) = 0 THEN 0 ELSE BudgetOrZero(initiatives[1])

\* sum(init.budget or 0 for init in initiatives); adding a string to the
\* running number raises TypeError
BudgetSum(initiatives) ==
    Sum([i \in 1..Len(initiatives) |-> BudgetOrZero(initiatives[i])])

BudgetSumRaises(initiatives) ==
    \E i \in 1..Len(initiatives) :
        /\ initiatives[i].budget # None
        /\ ~IsNumber(initiatives[i].budget)

\* an achievement that asks for more than 100
IsAchieved_above(kpi) ==
    KPI_progress(kpi) # None
        /\ Val(KPI_progress(kpi))[1] > 100 * Val(KPI_progress(kpi))[2]

\* kpi.progress is not None and kpi.progress >= 100
IsAchieved(kpi) ==
    KPI_progress(kpi) # None /\ FractionGe(Val(KPI_progress(kpi)), 100)

\* some kpi.progress of the list raises
ProgressRaises(kpis) ==
    \E i \in 1..Len(kpis) : KPI_progress_raises(kpis[i])

----------------------------------------------------------------------------
(* strateplan/services/plan_service.py *)

PlanService_create_plan(d, now, name, description, start_date, end_date) ==
    LET name_v == validate_text(name, 1, None, FALSE)
        date_v == validate_date_range(start_date, end_date)
        plan == [id |-> None, name |-> name, description |-> description,
                 start_date |-> start_date, end_date |-> end_date,
                 created_at |-> None, updated_at |-> None]
        saved == StrategicPlan_save(d, now, plan)
    IN  IF ~name_v.valid
        THEN Err(d, None, <<"plan name: ">> \o Val(name_v.error))
        ELSE IF ~date_v.valid THEN Err(d, None, Val(date_v.error))
        ELSE Ok(saved.db, saved.value, saved.raised)

\* an update that checks the dates it is given and not the stored ones
PlanService_update_plan_unmerged(d, now, plan_id, name, description, start_date, end_date) ==
    LET found == StrategicPlan_get_by_id(d, plan_id)
        plan == Val(found)
        name_v == validate_text(name, 1, None, FALSE)
        curr_start == IF start_date = None THEN plan.start_date ELSE start_date
        curr_end == IF end_date = None THEN plan.end_date ELSE end_date
        date_v == validate_date_range(start_date, end_date)
        updated ==
            [plan EXCEPT
                !.name = IF name # None THEN name ELSE @,
                !.description = IF description # None THEN description ELSE @,
                !.start_date = IF start_date # None THEN start_date ELSE @,
                !.end_date = IF end_date # None THEN end_date ELSE @]
        saved == StrategicPlan_save(d, now, updated)
    IN  IF found = None THEN Err(d, Some(FALSE), <<"plan not found">>)
        ELSE IF name # None /\ ~name_v.valid
        THEN Err(d, Some(FALSE), <<"plan name: ">> \o Val(name_v.error))
        ELSE IF ~date_v.valid THEN Err(d, Some(FALSE), Val(date_v.error))
        ELSE Ok(saved.db, Some(TRUE), saved.raised)

PlanService_update_plan(d, now, plan_id, name, description, start_date, end_date) ==
    LET found == StrategicPlan_get_by_id(d, plan_id)
        plan == Val(found)
        name_v == validate_text(name, 1, None, FALSE)
        curr_start == IF start_date = None THEN plan.start_date ELSE start_date
        curr_end == IF end_date = None THEN plan.end_date ELSE end_date
        date_v == validate_date_range(curr_start, curr_end)
        updated ==
            [plan EXCEPT
                !.name = IF name # None THEN name ELSE @,
                !.description = IF description # None THEN description ELSE @,
                !.start_date = IF start_date # None THEN start_date ELSE @,
                !.end_date = IF end_date # None THEN end_date ELSE @]
        saved == StrategicPlan_save(d, now, updated)
    IN  IF found = None THEN Err(d, Some(FALSE), <<"plan not found">>)
        ELSE IF name # None /\ ~name_v.valid
        THEN Err(d, Some(FALSE), <<"plan name: ">> \o Val(name_v.error))
        ELSE IF ~date_v.valid THEN Err(d, Some(FALSE), Val(date_v.error))
        ELSE Ok(saved.db, Some(TRUE), saved.raised)

PlanService_delete_plan(d, plan_id) ==
    LET found == StrategicPlan_get_by_id(d, plan_id)
        deleted == StrategicPlan_delete(d, Val(found))
    IN  IF found = None THEN Err(d, Some(FALSE), <<"plan not found">>)
        ELSE IF ~deleted.value
        THEN Err(deleted.db, Some(FALSE), <<"error deleting plan">>)
        ELSE Ok(deleted.db, Some(TRUE), None)

PlanService_get_plan_summary(d, plan_id) ==
    LET plan == StrategicPlan_get_by_id(d, plan_id)
        issues == StrategicIssue_get_by_plan_id(d, plan_id)
        kpis(issue) == KPI_get_by_issue_id(d, issue.id)
        initiatives(issue) == Initiative_get_by_issue_id(d, issue.id)
        issue_summary(issue) ==
            [issue |-> StrategicIssue_to_dict(issue),
             kpi_count |-> Len(kpis(issue)),
             initiative_count |-> Len(initiatives(issue)),
             budget |-> BudgetSum(initiatives(issue))]
        summaries == [i \in 1..Len(issues) |-> issue_summary(issues[i])]
    IN  IF plan = None THEN Err(d, None, <<"plan not found">>)
        ELSE IF \E i \in 1..Len(issues) :
                    BudgetSumRaises(initiatives(issues[i]))
        THEN Raise(d, "TypeError")
        ELSE Ok(d, Some(
                 [plan |-> StrategicPlan_to_dict(Val(plan)),
                  issue_count |-> Len(issues),
                  issues |-> summaries,
                  kpi_count |->
                      Sum([i \in 1..Len(issues) |-> summaries[i].kpi_count]),
                  initiative_count |->
                      Sum([i \in 1..Len(issues) |->
                               summaries[i].initiative_count]),
                  total_budget |->
                      Sum([i \in 1..Len(issues) |-> summaries[i].budget])]),
                None)

----------------------------------------------------------------------------
(* strateplan/services/issue_service.py *)

IssueService_create_issue(d, now, plan_id, name, description, priority) ==
    LET plan_v == validate_id_exists(plan_id,
                                     StrategicPlan_get_by_id(d, plan_id))
        name_v == validate_text(name, 1, None, FALSE)
        priority_v == validate_numeric(priority, Some(1), None, TRUE)
        issue == [id |-> None, plan_id |-> plan_id, name |-> name,
                  description |-> description, priority |-> priority,
                  created_at |-> None, updated_at |-> None]
        saved == StrategicIssue_save(d, now, issue)
    IN  IF ~plan_v.valid
        THEN Err(d, None, <<"plan: ">> \o Val(plan_v.error))
        ELSE IF ~name_v.valid
        THEN Err(d, None, <<"issue name: ">> \o Val(name_v.error))
        ELSE IF priority # None /\ ~priority_v.valid
        THEN Err(d, None, <<"priority: ">> \o Val(priority_v.error))
        ELSE Ok(saved.db, saved.value, saved.raised)

IssueService_update_issue(d, now, issue_id, name, description, priority) ==
    LET found == StrategicIssue_get_by_id(d, issue_id)
        issue == Val(found)
        name_v == validate_text(name, 1, None, FALSE)
        priority_v == validate_numeric(priority, Some(1), None, TRUE)
        updated ==
            [issue EXCEPT
                !.name = IF name # None THEN name ELSE @,
                !.priority = IF priority # None THEN priority ELSE @,
                !.description = IF description # None THEN description ELSE @]
        saved == StrategicIssue_save(d, now, updated)
    IN  IF found = None THEN Err(d, Some(FALSE), <<"issue not found">>)
        ELSE IF name # None /\ ~name_v.valid
        THEN Err(d, Some(FALSE), <<"issue name: ">> \o Val(name_v.error))
        ELSE IF priority # None /\ ~priority_v.valid
        THEN Err(d, Some(FALSE), <<"priority: ">> \o Val(priority_v.error))
        ELSE Ok(saved.db, Some(TRUE), saved.raised)

IssueService_delete_issue(d, issue_id) ==
    LET found == StrategicIssue_get_by_id(d, issue_id)
        deleted == StrategicIssue_delete(d, Val(found))
    IN  IF found = None THEN Err(d, Some(FALSE), <<"issue not found">>)
        ELSE IF ~deleted.value
        THEN Err(deleted.db, Some(FALSE), <<"error deleting issue">>)
        ELSE Ok(deleted.db, Some(TRUE), None)

\* the loop of reorder_priorities counting positions from 0
RECURSIVE UpdatePriorities_from_zero(_, _, _, _)
UpdatePriorities_from_zero(d, now, issue_ids, i) ==
    IF i > Len(issue_ids) THEN d
    ELSE LET issue == Val(StrategicIssue_get_by_id(d, Some(issue_ids[i])))
             saved == StrategicIssue_save(d, now,
                          [issue EXCEPT !.priority = Some(i - 1)])
         IN  UpdatePriorities_from_zero(saved.db, now, issue_ids, i + 1)

\* the loop "for i, issue_id in enumerate(issue_ids, 1)" from position i on:
\* read the issue, set its priority to i, save it
RECURSIVE UpdatePriorities(_, _, _, _)
UpdatePriorities(d, now, issue_ids, i) ==
    IF i > Len(issue_ids) THEN d
    ELSE LET issue == Val(StrategicIssue_get_by_id(d, Some(issue_ids[i])))
             saved == StrategicIssue_save(d, now,
                          [issue EXCEPT !.priority = Some(i)])
         IN  UpdatePriorities(saved.db, now, issue_ids, i + 1)

\* a reorder that checks each id as it comes to it in the update loop
IssueService_reorder_priorities_stepwise(d, now, plan_id, issue_ids) ==
    LET plan == StrategicPlan_get_by_id(d, plan_id)
        all_issues == StrategicIssue_get_by_plan_id(d, plan_id)
        all_issue_ids == {Val(all_issues[k].id) : k \in 1..Len(all_issues)}
        bad == {k \in 1..Len(issue_ids) : issue_ids[k] \notin all_issue_ids}
        stop == CHOOSE k \in bad : \A o \in bad : k <= o
    IN  IF plan = None THEN Err(d, Some(FALSE), <<"plan not found">>)
        ELSE IF bad # {}
        THEN Err(UpdatePriorities(d, now, SubSeq(issue_ids, 1, stop - 1), 1),
                 Some(FALSE), <<"issue is not in this plan">>)
        ELSE Ok(UpdatePriorities(d, now, issue_ids, 1), Some(TRUE), None)

IssueService_reorder_priorities(d, now, plan_id, issue_ids) ==
    LET plan == StrategicPlan_get_by_id(d, plan_id)
        all_issues == StrategicIssue_get_by_plan_id(d, plan_id)
        all_issue_ids == {Val(all_issues[k].id) : k \in 1..Len(all_issues)}
    IN  IF plan = None THEN Err(d, Some(FALSE), <<"plan not found">>)
        ELSE IF \E k \in 1..Len(issue_ids) : issue_ids[k] \notin all_issue_ids
        THEN Err(d, Some(FALSE), <<"issue is not in this plan">>)
        ELSE Ok(UpdatePriorities(d, now, issue_ids, 1), Some(TRUE), None)

IssueService_get_issue_summary(d, issue_id) ==
    LET issue == StrategicIssue_get_by_id(d, issue_id)
        plan == StrategicPlan_get_by_id(d, Val(issue).plan_id)
        kpis == KPI_get_by_issue_id(d, issue_id)
        initiatives == Initiative_get_by_issue_id(d, issue_id)
    IN  IF issue = None THEN Err(d, None, <<"issue not found">>)
        ELSE IF BudgetSumRaises(initiatives) \/ ProgressRaises(kpis)
        THEN Raise(d, "TypeError")
        ELSE Ok(d, Some(
                 [issue |-> StrategicIssue_to_dict(Val(issue)),
                  plan |-> IF plan # None
                           THEN Some(StrategicPlan_to_dict(Val(plan)))
                           ELSE None,
                  kpis |-> [i \in 1..Len(kpis) |->
                               [kpi |-> KPI_to_dict(kpis[i]),
                                progress |-> KPI_progress(kpis[i])]],
                  initiatives |-> [i \in 1..Len(initiatives) |->
                                      Initiative_to_dict(initiatives[i])],
                  kpi_count |-> Len(kpis),
                  initiative_count |-> Len(initiatives),
                  total_budget |-> BudgetSum(initiatives)]),
                None)

----------------------------------------------------------------------------
(* strateplan/services/kpi_service.py *)

KPIService_create_kpi(d, now, issue_id, name, description, target_value, current_value, unit) ==
    LET issue_v == validate_id_exists(issue_id,
                                      StrategicIssue_get_by_id(d, issue_id))
        name_v == validate_text(name, 1, None, FALSE)
        target_v == validate_numeric(target_value, None, None, TRUE)
        current_v == validate_numeric(current_value, None, None, TRUE)
        kpi == [id |-> None, issue_id |-> issue_id, name |-> name,
                description |-> description, target_value |-> target_value,
                current_value |-> current_value, unit |-> unit,
                created_at |-> None, updated_at |-> None]
        saved == KPI_save(d, now, kpi)
    IN  IF ~issue_v.valid
        THEN Err(d, None, <<"issue: ">> \o Val(issue_v.error))
        ELSE IF ~name_v.valid
        THEN Err(d, None, <<"kpi name: ">> \o Val(name_v.error))
        ELSE IF target_value # None /\ ~target_v.valid
        THEN Err(d, None, <<"target value: ">> \o Val(target_v.error))
        ELSE IF current_value # None /\ ~current_v.valid
        THEN Err(d, None, <<"current value: ">> \o Val(current_v.error))
        ELSE Ok(saved.db, saved.value, saved.raised)

KPIService_update_kpi(d, now, kpi_id, name, description, target_value, current_value, unit) ==
    LET found == KPI_get_by_id(d, kpi_id)
        kpi == Val(found)
        name_v == validate_text(name, 1, None, FALSE)
        target_v == validate_numeric(target_value, None, None, TRUE)
        current_v == validate_numeric(current_value, None, None, TRUE)
        updated ==
            [kpi EXCEPT
                !.name = IF name # None THEN name ELSE @,
                !.target_value =
                    IF target_value # None THEN target_value ELSE @,
                !.current_value =
                    IF current_value # None THEN current_value ELSE @,
                !.description = IF description # None THEN description ELSE @,
                !.unit = IF unit # None THEN unit ELSE @]
        saved == KPI_save(d, now, updated)
    IN  IF found = None THEN Err(d, Some(FALSE), <<"kpi not found">>)
        ELSE IF name # None /\ ~name_v.valid
        THEN Err(d, Some(FALSE), <<"kpi name: ">> \o Val(name_v.error))
        ELSE IF target_value # None /\ ~target_v.valid
        THEN Err(d, Some(FALSE), <<"target value: ">> \o Val(target_v.error))
        ELSE IF current_value # None /\ ~current_v.valid
        THEN Err(d, Some(FALSE),
                 <<"current value: ">> \o Val(current_v.error))
        ELSE Ok(saved.db, Some(TRUE), saved.raised)

\* a delete that does not look the KPI up first
KPIService_delete_kpi_unchecked(d, kpi_id) ==
    Ok(Database_delete(d, "kpis", kpi_id).db, Some(TRUE), None)

KPIService_delete_kpi(d, kpi_id) ==
    LET found == KPI_get_by_id(d, kpi_id)
        deleted == KPI_delete(d, Val(found))
    IN  IF found = None THEN Err(d, Some(FALSE), <<"kpi not found">>)
        ELSE IF ~deleted.value
        THEN Err(deleted.db, Some(FALSE), <<"error deleting kpi">>)
        ELSE Ok(deleted.db, Some(TRUE), None)

KPIService_update_progress(d, now, kpi_id, current_value) ==
    LET found == KPI_get_by_id(d, kpi_id)
        current_v == validate_numeric(current_value, None, None, TRUE)
        saved == KPI_save(d, now,
                     [Val(found) EXCEPT !.current_value = current_value])
    IN  IF found = None THEN Err(d, Some(FALSE), <<"kpi not found">>)
        ELSE IF ~current_v.valid
        THEN Err(d, Some(FALSE),
                 <<"current value: ">> \o Val(current_v.error))
        ELSE Ok(saved.db, Some(TRUE), saved.raised)

KPIService_get_kpi_progress(d, kpi_id) ==
    LET kpi == KPI_get_by_id(d, kpi_id)
        issue == StrategicIssue_get_by_id(d, Val(kpi).issue_id)
        progress == KPI_progress(Val(kpi))
    IN  IF kpi = None THEN Err(d, None, <<"kpi not found">>)
        ELSE IF KPI_progress_raises(Val(kpi)) THEN Raise(d, "TypeError")
        ELSE Ok(d, Some(
                 [kpi |-> KPI_to_dict(Val(kpi)),
                  issue |-> IF issue # None
                            THEN Some(StrategicIssue_to_dict(Val(issue)))
                            ELSE None,
                  progress |-> progress,
                  is_achieved |-> IF progress # None
                                  THEN FractionGe(Val(progress), 100)
                                  ELSE FALSE]),
                None)

----------------------------------------------------------------------------
(* strateplan/services/initiative_service.py *)

\* a create that checks the budget before the name
InitiativeService_create_initiative_budget_first(d, now, issue_id, name, description, status, budget, start_date, end_date) ==
    LET issue_v == validate_id_exists(issue_id,
                                      StrategicIssue_get_by_id(d, issue_id))
        name_v == validate_text(name, 1, None, FALSE)
        status_v == validate_in_list(status, VALID_STATUSES, TRUE)
        status1 == IF status # None THEN status ELSE Some(STATUS_NOT_STARTED)
        budget_v == validate_numeric(budget, Some(0), None, TRUE)
        date_v == validate_date_range(start_date, end_date)
        initiative ==
            Initiative_init(
                [id |-> None, issue_id |-> issue_id, name |-> name,
                 description |-> description, status |-> status1,
                 budget |-> budget, start_date |-> start_date,
                 end_date |-> end_date, created_at |-> None,
                 updated_at |-> None])
        saved == Initiative_save(d, now, initiative)
    IN  IF ~issue_v.valid
        THEN Err(d, None, <<"issue: ">> \o Val(issue_v.error))
        ELSE IF budget # None /\ ~budget_v.valid
        THEN Err(d, None, <<"budget: ">> \o Val(budget_v.error))
        ELSE IF ~name_v.valid
        THEN Err(d, None, <<"initiative name: ">> \o Val(name_v.error))
        ELSE IF status # None /\ ~status_v.valid
        THEN Err(d, None, <<"status: ">> \o Val(status_v.error))
        ELSE IF ~date_v.valid THEN Err(d, None, Val(date_v.error))
        ELSE Ok(saved.db, saved.value, saved.raised)

InitiativeService_create_initiative(d, now, issue_id, name, description, status, budget, start_date, end_date) ==
    LET issue_v == validate_id_exists(issue_id,
                                      StrategicIssue_get_by_id(d, issue_id))
        name_v == validate_text(name, 1, None, FALSE)
        status_v == validate_in_list(status, VALID_STATUSES, TRUE)
        status1 == IF status # None THEN status ELSE Some(STATUS_NOT_STARTED)
        budget_v == validate_numeric(budget, Some(0), None, TRUE)
        date_v == validate_date_range(start_date, end_date)
        initiative ==
            Initiative_init(
                [id |-> None, issue_id |-> issue_id, name |-> name,
                 description |-> description, status |-> status1,
                 budget |-> budget, start_date |-> start_date,
                 end_date |-> end_date, created_at |-> None,
                 updated_at |-> None])
        saved == Initiative_save(d, now, initiative)
    IN  IF ~issue_v.valid
        THEN Err(d, None, <<"issue: ">> \o Val(issue_v.error))
        ELSE IF ~name_v.valid
        THEN Err(d, None, <<"initiative name: ">> \o Val(name_v.error))
        ELSE IF status # None /\ ~status_v.valid
        THEN Err(d, None, <<"status: ">> \o Val(status_v.error))
        ELSE IF budget # None /\ ~budget_v.valid
        THEN Err(d, None, <<"budget: ">> \o Val(budget_v.error))
        ELSE IF ~date_v.valid THEN Err(d, None, Val(date_v.error))
        ELSE Ok(saved.db, saved.value, saved.raised)

InitiativeService_update_initiative(d, now, initiative_id, name, description, status, budget, start_date, end_date) ==
    LET found == Initiative_get_by_id(d, initiative_id)
        initiative == Val(found)
        name_v == validate_text(name, 1, None, FALSE)
        status_v == validate_in_list(status, VALID_STATUSES, TRUE)
        budget_v == validate_numeric(budget, Some(0), None, TRUE)
        curr_start ==
            IF start_date = None THEN initiative.start_date ELSE start_date
        curr_end == IF end_date = None THEN initiative.end_date ELSE end_date
        date_v == validate_date_range(curr_start, curr_end)
        updated ==
            [initiative EXCEPT
                !.name = IF name # None THEN name ELSE @,
                !.status = IF status # None THEN status ELSE @,
                !.budget = IF budget # None THEN budget ELSE @,
                !.start_date = IF start_date # None THEN start_date ELSE @,
                !.end_date = IF end_date # None THEN end_date ELSE @,
                !.description = IF description # None THEN description ELSE @]
        saved == Initiative_save(d, now, updated)
    IN  IF found = None THEN Err(d, Some(FALSE), <<"initiative not found">>)
        ELSE IF name # None /\ ~name_v.valid
        THEN Err(d, Some(FALSE), <<"initiative name: ">> \o Val(name_v.error))
        ELSE IF status # None /\ ~status_v.valid
        THEN Err(d, Some(FALSE), <<"status: ">> \o Val(status_v.error))
        ELSE IF budget # None /\ ~budget_v.valid
        THEN Err(d, Some(FALSE), <<"budget: ">> \o Val(budget_v.error))
        ELSE IF ~date_v.valid THEN Err(d, Some(FALSE), Val(date_v.error))
        ELSE Ok(saved.db, Some(TRUE), saved.raised)

InitiativeService_delete_initiative(d, initiative_id) ==
    LET found == Initiative_get_by_id(d, initiative_id)
        deleted == Initiative_delete(d, Val(found))
    IN  IF found = None THEN Err(d, Some(FALSE), <<"initiative not found">>)
        ELSE IF ~deleted.value
        THEN Err(deleted.db, Some(FALSE), <<"error deleting initiative">>)
        ELSE Ok(deleted.db, Some(TRUE), None)

\* an update that stores the status before it reports it invalid
InitiativeService_update_status_written(d, now, initiative_id, status) ==
    LET found == Initiative_get_by_id(d, initiative_id)
        status_v == validate_in_list(status, VALID_STATUSES, TRUE)
        saved == Initiative_save(d, now, [Val(found) EXCEPT !.status = status])
    IN  IF found = None THEN Err(d, Some(FALSE), <<"initiative not found">>)
        ELSE IF ~status_v.valid
        THEN Err(saved.db, Some(FALSE), <<"status: ">> \o Val(status_v.error))
        ELSE Ok(saved.db, Some(TRUE), saved.raised)

InitiativeService_update_status(d, now, initiative_id, status) ==
    LET found == Initiative_get_by_id(d, initiative_id)
        status_v == validate_in_list(status, VALID_STATUSES, TRUE)
        saved == Initiative_save(d, now, [Val(found) EXCEPT !.status = status])
    IN  IF found = None THEN Err(d, Some(FALSE), <<"initiative not found">>)
        ELSE IF ~status_v.valid
        THEN Err(d, Some(FALSE), <<"status: ">> \o Val(status_v.error))
        ELSE Ok(saved.db, Some(TRUE), saved.raised)

----------------------------------------------------------------------------
(* strateplan/services/report_service.py *)

\* sum(kpi.progress or 0 for kpi in kpis if kpi.progress is not None)
RECURSIVE ProgressSum(_)
ProgressSum(kpis) ==
    IF Len(kpis) = 0 THEN <<0, 1>>
    ELSE IF KPI_progress(Head(kpis)) # None
    THEN FractionAdd(Val(KPI_progress(Head(kpis))), ProgressSum(Tail(kpis)))
    ELSE ProgressSum(Tail(kpis))

\* the number of the initiatives that have the status
StatusCount(initiatives, status) ==
    Cardinality({i \in 1..Len(initiatives) :
                    initiatives[i].status = Some(status)})

ReportService_generate_plan_summary(d, plan_id) ==
    LET plan == StrategicPlan_get_by_id(d, plan_id)
        issues == StrategicIssue_get_by_plan_id(d, plan_id)
        kpis(issue) == KPI_get_by_issue_id(d, issue.id)
        initiatives(issue) == Initiative_get_by_issue_id(d, issue.id)
        issue_summary(issue) ==
            [issue |-> StrategicIssue_to_dict(issue),
             kpi_count |-> Len(kpis(issue)),
             kpi_achieved |->
                 Cardinality({i \in 1..Len(kpis(issue)) :
                                 IsAchieved(kpis(issue)[i])}),
             kpi_progress |->
                 IF Len(kpis(issue)) > 0
                 THEN Some(FractionDiv(ProgressSum(kpis(issue)),
                                       Len(kpis(issue))))
                 ELSE None,
             initiative_count |-> Len(initiatives(issue)),
             initiative_status |->
                 [status \in VALID_STATUSES |->
                     StatusCount(initiatives(issue), status)],
             budget |-> BudgetSum(initiatives(issue))]
        summaries == [i \in 1..Len(issues) |-> issue_summary(issues[i])]
    IN  IF plan = None THEN Err(d, None, <<"plan not found">>)
        ELSE IF \E i \in 1..Len(issues) :
                    \/ BudgetSumRaises(initiatives(issues[i]))
                    \/ ProgressRaises(kpis(issues[i]))
        THEN Raise(d, "TypeError")
        ELSE Ok(d, Some(
                 [plan |-> StrategicPlan_to_dict(Val(plan)),
                  issue_count |-> Len(issues),
                  issues |-> summaries,
                  kpi_count |->
                      Sum([i \in 1..Len(issues) |-> summaries[i].kpi_count]),
                  initiative_count |->
                      Sum([i \in 1..Len(issues) |->
                               summaries[i].initiative_count]),
                  total_budget |->
                      Sum([i \in 1..Len(issues) |-> summaries[i].budget])]),
                None)

ReportService_generate_kpi_summary(d, plan_id) ==
    LET plan == StrategicPlan_get_by_id(d, plan_id)
        issues == StrategicIssue_get_by_plan_id(d, plan_id)
        kpis(issue) == KPI_get_by_issue_id(d, issue.id)
        kpi_data == Flatten(
            [i \in 1..Len(issues) |->
                [k \in 1..Len(kpis(issues[i])) |->
                    [kpi |-> KPI_to_dict(kpis(issues[i])[k]),
                     issue |-> StrategicIssue_to_dict(issues[i]),
                     progress |-> KPI_progress(kpis(issues[i])[k]),
                     is_achieved |-> IsAchieved(kpis(issues[i])[k])]]])
        kpi_count == Len(kpi_data)
        kpi_achieved ==
            Cardinality({k \in 1..Len(kpi_data) : kpi_data[k].is_achieved})
    IN  IF plan = None THEN Err(d, None, <<"plan not found">>)
        ELSE IF \E i \in 1..Len(issues) : ProgressRaises(kpis(issues[i]))
        THEN Raise(d, "TypeError")
        ELSE Ok(d, Some(
                 [plan |-> StrategicPlan_to_dict(Val(plan)),
                  kpi_count |-> kpi_count,
                  kpi_achieved |-> kpi_achieved,
                  kpi_data |-> kpi_data,
                  achievement_rate |->
                      IF kpi_count > 0
                      THEN Some(Fraction(kpi_achieved * 100, kpi_count))
                      ELSE None]),
                None)

\* status_counts[initiative.status] += 1 raises KeyError for a status that
\* is no key; total_budget += initiative.budget raises TypeError for a
\* string: the first initiative that raises decides
ReportService_generate_initiative_summary(d, plan_id) ==
    LET plan == StrategicPlan_get_by_id(d, plan_id)
        issues == StrategicIssue_get_by_plan_id(d, plan_id)
        initiatives(issue) == Initiative_get_by_issue_id(d, issue.id)
        initiative_data == Flatten(
            [i \in 1..Len(issues) |->
                [k \in 1..Len(initiatives(issues[i])) |->
                    [initiative |->
                         Initiative_to_dict(initiatives(issues[i])[k]),
                     issue |-> StrategicIssue_to_dict(issues[i])]]])
        all == [k \in 1..Len(initiative_data) |->
                   initiative_data[k].initiative]
        NoKey(k) == Val(all[k].status) \notin VALID_STATUSES
        NoSum(k) == all[k].budget # None /\ ~IsNumber(all[k].budget)
        failing == {k \in 1..Len(all) : NoKey(k) \/ NoSum(k)}
        first == CHOOSE k \in failing : \A other \in failing : k <= other
        initiative_count == Len(all)
        status_counts == [status \in VALID_STATUSES |->
                             StatusCount(all, status)]
    IN  IF plan = None THEN Err(d, None, <<"plan not found">>)
        ELSE IF failing # {}
        THEN Raise(d, IF NoKey(first) THEN "KeyError" ELSE "TypeError")
        ELSE Ok(d, Some(
                 [plan |-> StrategicPlan_to_dict(Val(plan)),
                  initiative_count |-> initiative_count,
                  total_budget |-> BudgetSum(all),
                  status_counts |-> status_counts,
                  initiative_data |-> initiative_data,
                  status_distribution |->
                      IF initiative_count > 0
                      THEN [status \in VALID_STATUSES |->
                               Fraction(status_counts[status] * 100,
                                        initiative_count)]
                      ELSE [status \in VALID_STATUSES |-> <<0, 1>>]]),
                None)

----------------------------------------------------------------------------
(* The state machine: one action per call of a service or of a model       *)
(* class, with its arguments drawn from small sets.                        *)

MaxRows ==
    [strategic_plans |-> MaxPlans, strategic_issues |-> MaxIssues,
     kpis |-> MaxKpis, initiatives |-> MaxInitiatives]

\* an id argument: None, an id the table may have handed out, or one it
\* never hands out within the bounds
IdArgs(n) == {None} \cup {Some(i) : i \in 1..(n + 1)}

\* the ids of the rows ever stored in a table that holds n, and the next id
IdsUpTo(n) == {Some(i) : i \in 1..(n + 1)}

\* no call is under way: the last command has exited
Idle ==
    [op |-> "idle", args |-> <<>>, value |-> None, error |-> None,
     raised |-> None]

\* a command is run: the call returns (or raises) and leaves the database
\* r.db; max bounds the ids each table hands out
Call(within, op, args, r) ==
    /\ ret.op = "idle"
    /\ within
    /\ db' = r.db
    /\ pre' = db
    /\ ret' = [op |-> op, args |-> args, value |-> r.value,
               error |-> r.error, raised |-> r.raised]
    /\ UNCHANGED <<clock, gateway>>

\* entity.save() returning the entity's id, or raising
Saved(r) ==
    [db |-> r.db, value |-> r.value, error |-> None, raised |-> r.raised]

\* entity.delete() returning True or False
Deleted(r) ==
    [db |-> r.db, value |-> Some(r.value), error |-> None, raised |-> None]

\* every model method reaches the store through get_db()
Init ==
    /\ db = EmptyDb
    /\ clock = 1
    /\ pre = EmptyDb
    /\ ret = Idle
    /\ gateway = Connected

\* the command's process exits: only the database file stays
Exit ==
    /\ ret.op # "idle"
    /\ ret' = Idle
    /\ pre' = db
    /\ UNCHANGED <<db, clock, gateway>>

(* Spec: the tree of plans, issues, KPIs and initiatives *)

\* the rows ever inserted into each table stay within max
Within(d, max) == \A t \in Tables : d.sqlite_sequence[t] <= max[t]

Return(op, args, r) == Call(Within(r.db, MaxRows), op, args, r)

CreatePlan ==
    Return("create_plan", <<Some("a")>>,
           PlanService_create_plan(db, clock, Some("a"), None, None, None))

DeletePlan ==
    \E plan_id \in IdArgs(MaxPlans) :
        Return("delete_plan", <<plan_id>>, PlanService_delete_plan(db, plan_id))

CreateIssue ==
    \E plan_id \in IdArgs(MaxPlans) :
        Return("create_issue", <<plan_id>>,
               IssueService_create_issue(db, clock, plan_id, Some("a"),
                                         None, None))

DeleteIssue ==
    \E issue_id \in IdArgs(MaxIssues) :
        Return("delete_issue", <<issue_id>>,
               IssueService_delete_issue(db, issue_id))

CreateKpi ==
    \E issue_id \in IdArgs(MaxIssues) :
        Return("create_kpi", <<issue_id>>,
               KPIService_create_kpi(db, clock, issue_id, Some("a"), None,
                                     None, None, None))

CreateInitiative ==
    \E issue_id \in IdArgs(MaxIssues) :
        Return("create_initiative", <<issue_id>>,
               InitiativeService_create_initiative(db, clock, issue_id,
                   Some("a"), None, None, None, None, None))

Next ==
    \/ CreatePlan
    \/ DeletePlan
    \/ CreateIssue
    \/ DeleteIssue
    \/ CreateKpi
    \/ CreateInitiative
    \/ Exit

Spec == Init /\ [][Next]_vars

----------------------------------------------------------------------------
(* Claims checked under Spec *)

\* the ids of the rows of a table whose column holds one of the ids
Referencing(d, table, column, ids) ==
    {i \in DOMAIN d[table] :
        d[table][i][column] # None /\ Val(d[table][i][column]) \in ids}

\* every row of before outside the sets removed is in after, unchanged, and
\* after holds no other row
OnlyRemoved(before, after, removed) ==
    \A t \in Tables :
        /\ DOMAIN after[t] = DOMAIN before[t] \ removed[t]
        /\ \A i \in DOMAIN after[t] : after[t][i] = before[t][i]

\* the rows under a set of plans: the plans, their issues, and the KPIs and
\* initiatives of those issues
SubtreeOfPlans(d, plans) ==
    LET issues == Referencing(d, "strategic_issues", "plan_id", plans)
    IN  [strategic_plans |-> plans, strategic_issues |-> issues,
         kpis |-> Referencing(d, "kpis", "issue_id", issues),
         initiatives |-> Referencing(d, "initiatives", "issue_id", issues)]

SubtreeOfIssues(d, issues) ==
    [strategic_plans |-> {}, strategic_issues |-> issues,
     kpis |-> Referencing(d, "kpis", "issue_id", issues),
     initiatives |-> Referencing(d, "initiatives", "issue_id", issues)]

\* C1: after a successful delete_plan no row of the plan's subtree remains
\* (the plan, its issues, their KPIs and initiatives), and every row of the
\* other plans is unchanged.
C1_DeletePlanRemovesSubtree ==
    (ret.op = "delete_plan" /\ ret.error = None) =>
        LET plan == Val(ret.args[1])
            subtree == SubtreeOfPlans(pre, {plan})
        IN  /\ ret.value = Some(TRUE)
            /\ plan \in DOMAIN pre.strategic_plans
            /\ plan \notin DOMAIN db.strategic_plans
            /\ Referencing(db, "strategic_issues", "plan_id", {plan}) = {}
            /\ Referencing(db, "kpis", "issue_id",
                           subtree.strategic_issues) = {}
            /\ Referencing(db, "initiatives", "issue_id",
                           subtree.strategic_issues) = {}
            /\ OnlyRemoved(pre, db, subtree)

\* a plan with an issue that has a KPI and an initiative was deleted, and
\* another plan with an issue of its own is still stored
C1_Witness ==
    /\ ret.op = "delete_plan" /\ ret.error = None
    /\ LET subtree == SubtreeOfPlans(pre, {Val(ret.args[1])})
       IN  /\ subtree.strategic_issues # {}
           /\ subtree.kpis # {}
           /\ subtree.initiatives # {}
    /\ db.strategic_issues # <<>>

\* C2: after a successful delete_issue the issue row and every KPI and
\* initiative of that issue are removed, and the parent plan, the other
\* issues and their KPIs and initiatives are unchanged.
C2_DeleteIssueRemovesChildren ==
    (ret.op = "delete_issue" /\ ret.error = None) =>
        LET issue == Val(ret.args[1])
        IN  /\ ret.value = Some(TRUE)
            /\ issue \in DOMAIN pre.strategic_issues
            /\ issue \notin DOMAIN db.strategic_issues
            /\ Referencing(db, "kpis", "issue_id", {issue}) = {}
            /\ Referencing(db, "initiatives", "issue_id", {issue}) = {}
            /\ db.strategic_plans = pre.strategic_plans
            /\ OnlyRemoved(pre, db, SubtreeOfIssues(pre, {issue}))

\* an issue with a KPI and an initiative was deleted, and another issue is
\* still stored
C2_Witness ==
    /\ ret.op = "delete_issue" /\ ret.error = None
    /\ LET subtree == SubtreeOfIssues(pre, {Val(ret.args[1])})
       IN  subtree.kpis # {} /\ subtree.initiatives # {}
    /\ db.strategic_issues # <<>>

\* the messages validate_id_exists gives, behind a service's prefix
ExistenceErrors(prefix) ==
    {Some(<<prefix, "ID cannot be empty">>), Some(<<prefix, "ID not found">>)}

\* C4: create_issue with a plan_id that is absent or names no stored plan,
\* and create_kpi / create_initiative with an issue_id that is absent or
\* names no stored issue, return (None, existence error) and insert no row.
C4_CreateRejectsMissingParent ==
    LET parent == ret.args[1]
        missing(table) ==
            parent = None \/ Val(parent) \notin DOMAIN pre[table]
        rejected(prefix) ==
            /\ ret.value = None
            /\ ret.error \in ExistenceErrors(prefix)
            /\ ret.raised = None
            /\ db = pre
    IN  /\ (ret.op = "create_issue" /\ missing("strategic_plans"))
              => rejected("plan: ")
        /\ (ret.op \in {"create_kpi", "create_initiative"}
              /\ missing("strategic_issues")) => rejected("issue: ")

\* create_initiative was called with the id of an issue that is not stored,
\* while other issues are
C4_Witness ==
    /\ ret.op = "create_initiative"
    /\ ret.args[1] # None
    /\ Val(ret.args[1]) \notin DOMAIN pre.strategic_issues
    /\ pre.strategic_issues # <<>>
    /\ ret.error # None

----------------------------------------------------------------------------
(* SpecRepository: the services together with save() and delete() called   *)
(* directly on entities a caller built or kept, whatever ids they carry    *)

RepoMaxRows ==
    [strategic_plans |-> RepoMaxPlans, strategic_issues |-> RepoMaxIssues,
     kpis |-> RepoMaxKpis, initiatives |-> RepoMaxInitiatives]

RepoReturn(op, args, r) == Call(Within(r.db, RepoMaxRows), op, args, r)

\* the entities of the model: every optional field absent
PlanEntity(id) ==
    [id |-> id, name |-> Some("a"), description |-> None,
     start_date |-> None, end_date |-> None, created_at |-> None,
     updated_at |-> None]

IssueEntity(id, plan_id) ==
    [id |-> id, plan_id |-> plan_id, name |-> Some("a"),
     description |-> None, priority |-> None, created_at |-> None,
     updated_at |-> None]

KpiEntity(id, issue_id) ==
    [id |-> id, issue_id |-> issue_id, name |-> Some("a"),
     description |-> None, target_value |-> None, current_value |-> None,
     unit |-> None, created_at |-> None, updated_at |-> None]

InitiativeEntity(id, issue_id) ==
    Initiative_init(
        [id |-> id, issue_id |-> issue_id, name |-> Some("a"),
         description |-> None, status |-> None, budget |-> None,
         start_date |-> None, end_date |-> None, created_at |-> None,
         updated_at |-> None])

RepoCreatePlan ==
    RepoReturn("create_plan", <<Some("a")>>,
               PlanService_create_plan(db, clock, Some("a"), None, None, None))

RepoCreateIssue ==
    \E plan_id \in IdArgs(RepoMaxPlans) :
        RepoReturn("create_issue", <<plan_id>>,
                   IssueService_create_issue(db, clock, plan_id, Some("a"),
                                             None, None))

RepoCreateKpi ==
    \E issue_id \in IdArgs(RepoMaxIssues) :
        RepoReturn("create_kpi", <<issue_id>>,
                   KPIService_create_kpi(db, clock, issue_id, Some("a"),
                                         None, None, None, None))

RepoCreateInitiative ==
    \E issue_id \in IdArgs(RepoMaxIssues) :
        RepoReturn("create_initiative", <<issue_id>>,
                   InitiativeService_create_initiative(db, clock, issue_id,
                       Some("a"), None, None, None, None, None))

RepoUpdate ==
    \/ \E id \in IdArgs(RepoMaxPlans) :
          RepoReturn("update_plan", <<id>>,
                     PlanService_update_plan(db, clock, id, Some("a"), None,
                                             None, None))
    \/ \E id \in IdArgs(RepoMaxIssues) :
          RepoReturn("update_issue", <<id>>,
                     IssueService_update_issue(db, clock, id, Some("a"),
                                               None, None))
    \/ \E id \in IdArgs(RepoMaxKpis) :
          RepoReturn("update_kpi", <<id>>,
                     KPIService_update_kpi(db, clock, id, Some("a"), None,
                                           None, None, None))
    \/ \E id \in IdArgs(RepoMaxInitiatives) :
          RepoReturn("update_initiative", <<id>>,
                     InitiativeService_update_initiative(db, clock, id,
                         Some("a"), None, None, None, None, None))

RepoReorder ==
    \E plan_id \in IdArgs(RepoMaxPlans), issue_id \in 1..RepoMaxIssues :
        RepoReturn("reorder_priorities", <<plan_id, <<issue_id>> >>,
                   IssueService_reorder_priorities(db, clock, plan_id,
                                                   <<issue_id>>))

RepoDelete ==
    \/ \E id \in IdArgs(RepoMaxPlans) :
          RepoReturn("delete_plan", <<id>>, PlanService_delete_plan(db, id))
    \/ \E id \in IdArgs(RepoMaxIssues) :
          RepoReturn("delete_issue", <<id>>,
                     IssueService_delete_issue(db, id))
    \/ \E id \in IdArgs(RepoMaxKpis) :
          RepoReturn("delete_kpi", <<id>>, KPIService_delete_kpi(db, id))
    \/ \E id \in IdArgs(RepoMaxInitiatives) :
          RepoReturn("delete_initiative", <<id>>,
                     InitiativeService_delete_initiative(db, id))

\* entity.save() on an entity with no id (a new row) or with an id it got
\* earlier, and any parent key
SavePlan ==
    \E id \in IdArgs(RepoMaxPlans) :
        RepoReturn("StrategicPlan.save", <<id>>,
                   Saved(StrategicPlan_save(db, clock, PlanEntity(id))))

SaveIssue ==
    \E id \in IdArgs(RepoMaxIssues), plan_id \in IdArgs(RepoMaxPlans) :
        RepoReturn("StrategicIssue.save", <<id, plan_id>>,
                   Saved(StrategicIssue_save(db, clock,
                                             IssueEntity(id, plan_id))))

SaveKpi ==
    \E id \in IdArgs(RepoMaxKpis), issue_id \in IdArgs(RepoMaxIssues) :
        RepoReturn("KPI.save", <<id, issue_id>>,
                   Saved(KPI_save(db, clock, KpiEntity(id, issue_id))))

SaveInitiative ==
    \E id \in IdArgs(RepoMaxInitiatives), issue_id \in IdArgs(RepoMaxIssues) :
        RepoReturn("Initiative.save", <<id, issue_id>>,
                   Saved(Initiative_save(db, clock,
                                         InitiativeEntity(id, issue_id))))

\* entity.delete() on an entity that carries any id or none
DeleteEntity ==
    \/ \E id \in IdArgs(RepoMaxPlans) :
          RepoReturn("StrategicPlan.delete", <<id>>,
                     Deleted(StrategicPlan_delete(db, PlanEntity(id))))
    \/ \E id \in IdArgs(RepoMaxIssues) :
          RepoReturn("StrategicIssue.delete", <<id>>,
                     Deleted(StrategicIssue_delete(db, IssueEntity(id, None))))
    \/ \E id \in IdArgs(RepoMaxKpis) :
          RepoReturn("KPI.delete", <<id>>,
                     Deleted(KPI_delete(db, KpiEntity(id, None))))
    \/ \E id \in IdArgs(RepoMaxInitiatives) :
          RepoReturn("Initiative.delete", <<id>>,
                     Deleted(Initiative_delete(db, InitiativeEntity(id, None))))

NextRepository ==
    \/ RepoCreatePlan
    \/ RepoCreateIssue
    \/ RepoCreateKpi
    \/ RepoCreateInitiative
    \/ RepoUpdate
    \/ RepoReorder
    \/ RepoDelete
    \/ SavePlan
    \/ SaveIssue
    \/ SaveKpi
    \/ SaveInitiative
    \/ DeleteEntity
    \/ Exit

SpecRepository == Init /\ [][NextRepository]_vars

\* C3: in every reachable state every stored issue's plan_id is the id of a
\* stored plan, and every stored KPI's and initiative's issue_id is the id
\* of a stored issue.
C3_ReferentialIntegrity ==
    \A fk \in { [table |-> "strategic_issues", column |-> "plan_id",
                 parent |-> "strategic_plans"],
                [table |-> "kpis", column |-> "issue_id",
                 parent |-> "strategic_issues"],
                [table |-> "initiatives", column |-> "issue_id",
                 parent |-> "strategic_issues"] } :
        \A i \in DOMAIN db[fk.table] :
            /\ db[fk.table][i][fk.column] # None
            /\ Val(db[fk.table][i][fk.column]) \in DOMAIN db[fk.parent]

\* save() was called on an issue whose plan_id names no stored plan while
\* a plan, an issue, a KPI and an initiative are stored
C3_Witness ==
    /\ ret.op = "StrategicIssue.save"
    /\ ret.args[2] # None
    /\ Val(ret.args[2]) \notin DOMAIN pre.strategic_plans
    /\ db.strategic_issues # <<>>
    /\ db.kpis # <<>>
    /\ db.initiatives # <<>>

----------------------------------------------------------------------------
(* SpecDates: plans and initiatives created and updated with dates *)

Inserted(d) ==
    d.sqlite_sequence.strategic_plans + d.sqlite_sequence.strategic_issues
        + d.sqlite_sequence.kpis + d.sqlite_sequence.initiatives

DatesReturn(op, args, r) ==
    Call(Inserted(r.db) <= DatesMaxRows, op, args, r)

\* date arguments of an update: absent, "2024-12-31", "2025-01-01"
UpdateDateArgs == {None, Some(<<2024, 12, 31>>), Some(<<2025, 1, 1>>)}

\* date arguments of a create: those and "2025-02-30", which has the shape
\* of a date and is none
DateArgs == UpdateDateArgs \cup {Some(<<2025, 2, 30>>)}

DatesCreatePlan ==
    \E start_date \in DateArgs, end_date \in DateArgs :
        DatesReturn("create_plan", <<start_date, end_date>>,
                    PlanService_create_plan(db, clock, Some("a"), None,
                                            start_date, end_date))

DatesUpdatePlan ==
    \E plan_id \in IdsUpTo(db.sqlite_sequence.strategic_plans),
       start_date \in UpdateDateArgs, end_date \in UpdateDateArgs :
        DatesReturn("update_plan", <<plan_id, start_date, end_date>>,
                    PlanService_update_plan(db, clock, plan_id, None, None,
                                            start_date, end_date))

DatesCreateIssue ==
    \E plan_id \in IdsUpTo(db.sqlite_sequence.strategic_plans) :
        DatesReturn("create_issue", <<plan_id>>,
                    IssueService_create_issue(db, clock, plan_id, Some("a"),
                                              None, None))

DatesCreateInitiative ==
    \E issue_id \in IdsUpTo(db.sqlite_sequence.strategic_issues),
       start_date \in DateArgs, end_date \in DateArgs :
        DatesReturn("create_initiative", <<issue_id, start_date, end_date>>,
                    InitiativeService_create_initiative(db, clock, issue_id,
                        Some("a"), None, None, None, start_date, end_date))

DatesUpdateInitiative ==
    \E initiative_id \in IdsUpTo(db.sqlite_sequence.initiatives),
       start_date \in UpdateDateArgs, end_date \in UpdateDateArgs :
        DatesReturn("update_initiative",
                    <<initiative_id, start_date, end_date>>,
                    InitiativeService_update_initiative(db, clock,
                        initiative_id, None, None, None, None, start_date,
                        end_date))

NextDates ==
    \/ DatesCreatePlan
    \/ DatesUpdatePlan
    \/ DatesCreateIssue
    \/ DatesCreateInitiative
    \/ DatesUpdateInitiative
    \/ Exit

SpecDates == Init /\ [][NextDates]_vars

----------------------------------------------------------------------------
(* Claims on date ranges, under SpecDates *)

\* "YYYY-MM-DD" read as the number YYYYMMDD: the order of the strings
DateKey(s) == s[1] * 10000 + s[2] * 100 + s[3]

\* the stored row a call of ret.op was about, boxed; None when there is none
Target ==
    IF ret.op = "update_plan"
    THEN Database_fetch_one(pre, "strategic_plans", ret.args[1])
    ELSE IF ret.op = "update_initiative"
    THEN Database_fetch_one(pre, "initiatives", ret.args[1])
    ELSE None

\* the dates of the record the call asks for: the arguments of a create,
\* the arguments of an update where given and the stored dates elsewhere
Prospective ==
    IF ret.op \in {"create_plan", "create_initiative"}
    THEN [start_date |-> ret.args[Len(ret.args) - 1],
          end_date |-> ret.args[Len(ret.args)]]
    ELSE [start_date |-> IF ret.args[2] # None THEN ret.args[2]
                         ELSE Val(Target).start_date,
          end_date |-> IF ret.args[3] # None THEN ret.args[3]
                       ELSE Val(Target).end_date]

\* the inputs other than the dates are valid: the updated record is stored,
\* the issue of a new initiative is stored
OtherInputsValid ==
    CASE ret.op = "create_plan" -> TRUE
      [] ret.op = "create_initiative" ->
            Database_fetch_one(pre, "strategic_issues", ret.args[1]) # None
      [] ret.op \in {"update_plan", "update_initiative"} -> Target # None
      [] OTHER -> FALSE

WellFormed(date) == date # None /\ Len(Val(date)) = 3 /\ IsCalendarDate(Val(date))

BothDatesWellFormed ==
    /\ OtherInputsValid
    /\ WellFormed(Prospective.start_date)
    /\ WellFormed(Prospective.end_date)

\* C5: create_plan, update_plan, create_initiative and update_initiative,
\* given otherwise valid inputs and a prospective record whose start and end
\* dates are both present and well-formed, reject the call if and only if
\* the end date is strictly earlier than the start date; equal dates pass.
C5_RejectedIffEndBeforeStart ==
    BothDatesWellFormed =>
        (ret.error # None <=>
            DateKey(Val(Prospective.end_date))
                < DateKey(Val(Prospective.start_date)))

\* an update of an initiative that gives only the end date, equal to the
\* stored start date, was accepted
C5_Witness ==
    /\ ret.op = "update_initiative"
    /\ BothDatesWellFormed
    /\ ret.args[2] = None
    /\ ret.args[3] = Val(Target).start_date
    /\ ret.error = None
    /\ db.initiatives[Val(ret.args[1])].end_date = ret.args[3]

DatedRows(d) ==
    {d.strategic_plans[i] : i \in DOMAIN d.strategic_plans}
        \cup {d.initiatives[i] : i \in DOMAIN d.initiatives}

\* C6: every stored plan and every stored initiative that has both a start
\* date and an end date has an end date not earlier than its start date,
\* in every state the plan and initiative services reach, updates that give
\* one of the two dates included.
C6_StoredDatesOrdered ==
    \A row \in DatedRows(db) :
        (row.start_date # None /\ row.end_date # None) =>
            DateKey(Val(row.end_date)) >= DateKey(Val(row.start_date))

\* an update of a plan that gave only a start date, later than the stored
\* end date, was rejected and the plan keeps its two dates
C6_Witness ==
    /\ ret.op = "update_plan"
    /\ Target # None
    /\ ret.args[2] # None
    /\ ret.args[3] = None
    /\ Val(Target).end_date # None
    /\ DateKey(Val(ret.args[2])) > DateKey(Val(Val(Target).end_date))
    /\ ret.error # None
    /\ db.strategic_plans[Val(ret.args[1])] = Val(Target)
    /\ Val(Target).start_date # None

----------------------------------------------------------------------------
(* SpecErrors: every create, update and delete of the four services, with  *)
(* valid and invalid arguments                                              *)

ErrorsReturn(op, args, r) ==
    Call(Inserted(r.db) <= ErrorsMaxRows, op, args, r)

\* the string "abc" where a number is expected
NotANumber == <<"abc", "str">>

\* "2024-12-31", "2025-01-01", and "2025-02-30", which is no date
Dec31 == Some(<<2024, 12, 31>>)
Jan01 == Some(<<2025, 1, 1>>)
Feb30 == Some(<<2025, 2, 30>>)

StoredIds(table) == IdArgs(db.sqlite_sequence[table])

\* (name, start_date, end_date): valid, then one invalid argument each
CreatePlanArgs ==
    {<<Some("a"), None, None>>, <<Some(""), None, None>>,
     <<None, None, None>>, <<Some("a"), Jan01, Dec31>>,
     <<Some("a"), Feb30, None>>}

ErrorsCreatePlan ==
    \E a \in CreatePlanArgs :
        ErrorsReturn("create_plan", a,
                     PlanService_create_plan(db, clock, a[1], None, a[2],
                                             a[3]))

\* (name, start_date, end_date): a start, an end that precedes that start
\* (valid alone, on a plan without a start), then one invalid argument each
UpdatePlanArgs ==
    {<<None, Jan01, None>>, <<None, None, Dec31>>, <<Some(""), None, None>>,
     <<None, None, Feb30>>}

ErrorsUpdatePlan ==
    \E plan_id \in StoredIds("strategic_plans"), a \in UpdatePlanArgs :
        ErrorsReturn("update_plan", <<plan_id>> \o a,
                     PlanService_update_plan(db, clock, plan_id, a[1], None,
                                             a[2], a[3]))

ErrorsDeletePlan ==
    \E plan_id \in StoredIds("strategic_plans") :
        ErrorsReturn("delete_plan", <<plan_id>>,
                     PlanService_delete_plan(db, plan_id))

\* (name, priority)
CreateIssueArgs ==
    {<<Some("a"), None>>, <<Some(""), None>>, <<Some("a"), Some(0)>>,
     <<Some("a"), NotANumber>>}

ErrorsCreateIssue ==
    \E plan_id \in StoredIds("strategic_plans"), a \in CreateIssueArgs :
        ErrorsReturn("create_issue", <<plan_id>> \o a,
                     IssueService_create_issue(db, clock, plan_id, a[1], None,
                                               a[2]))

\* (name, priority)
UpdateIssueArgs ==
    {<<None, Some(1)>>, <<Some(""), None>>, <<None, Some(0)>>,
     <<None, NotANumber>>}

ErrorsUpdateIssue ==
    \E issue_id \in StoredIds("strategic_issues"), a \in UpdateIssueArgs :
        ErrorsReturn("update_issue", <<issue_id>> \o a,
                     IssueService_update_issue(db, clock, issue_id, a[1],
                                               None, a[2]))

ErrorsDeleteIssue ==
    \E issue_id \in StoredIds("strategic_issues") :
        ErrorsReturn("delete_issue", <<issue_id>>,
                     IssueService_delete_issue(db, issue_id))

\* (name, target_value, current_value)
CreateKpiArgs ==
    {<<Some("a"), None, None>>, <<Some(""), None, None>>,
     <<Some("a"), NotANumber, None>>, <<Some("a"), None, NotANumber>>}

ErrorsCreateKpi ==
    \E issue_id \in StoredIds("strategic_issues"), a \in CreateKpiArgs :
        ErrorsReturn("create_kpi", <<issue_id>> \o a,
                     KPIService_create_kpi(db, clock, issue_id, a[1], None,
                                           a[2], a[3], None))

\* (name, target_value, current_value)
UpdateKpiArgs ==
    {<<None, Some(2), None>>, <<Some(""), None, None>>,
     <<None, NotANumber, None>>, <<None, Some(2), NotANumber>>}

ErrorsUpdateKpi ==
    \E kpi_id \in StoredIds("kpis"), a \in UpdateKpiArgs :
        ErrorsReturn("update_kpi", <<kpi_id>> \o a,
                     KPIService_update_kpi(db, clock, kpi_id, a[1], None,
                                           a[2], a[3], None))

ErrorsDeleteKpi ==
    \E kpi_id \in StoredIds("kpis") :
        ErrorsReturn("delete_kpi", <<kpi_id>>,
                     KPIService_delete_kpi(db, kpi_id))

ErrorsUpdateProgress ==
    \E kpi_id \in StoredIds("kpis"), current_value \in {Some(1), NotANumber} :
        ErrorsReturn("update_progress", <<kpi_id, current_value>>,
                     KPIService_update_progress(db, clock, kpi_id,
                                                current_value))

\* (name, status, budget, start_date, end_date)
CreateInitiativeArgs ==
    {<<Some("a"), None, None, None, None>>,
     <<Some(""), None, None, None, None>>,
     <<Some("a"), Some("InvalidValue"), None, None, None>>,
     <<Some("a"), None, Some(-1), None, None>>,
     <<Some("a"), None, NotANumber, None, None>>,
     <<Some("a"), None, None, Jan01, Dec31>>,
     <<Some("a"), None, None, None, Feb30>>}

ErrorsCreateInitiative ==
    \E issue_id \in StoredIds("strategic_issues"),
       a \in CreateInitiativeArgs :
        ErrorsReturn("create_initiative", <<issue_id>> \o a,
                     InitiativeService_create_initiative(db, clock, issue_id,
                         a[1], None, a[2], a[3], a[4], a[5]))

\* (name, status, budget, start_date, end_date)
UpdateInitiativeArgs ==
    {<<None, None, Some(0), None, None>>,
     <<Some(""), None, None, None, None>>,
     <<Some("b"), Some("InvalidValue"), None, None, None>>,
     <<None, Some(STATUS_DELAYED), Some(-1), None, None>>,
     <<None, None, Some(0), Jan01, Dec31>>,
     <<None, None, None, Feb30, None>>}

ErrorsUpdateInitiative ==
    \E initiative_id \in StoredIds("initiatives"),
       a \in UpdateInitiativeArgs :
        ErrorsReturn("update_initiative", <<initiative_id>> \o a,
                     InitiativeService_update_initiative(db, clock,
                         initiative_id, a[1], None, a[2], a[3], a[4], a[5]))

ErrorsDeleteInitiative ==
    \E initiative_id \in StoredIds("initiatives") :
        ErrorsReturn("delete_initiative", <<initiative_id>>,
                     InitiativeService_delete_initiative(db, initiative_id))

StatusArgs == {Some("InvalidValue"), Some(STATUS_COMPLETED)}

ErrorsUpdateStatus ==
    \E initiative_id \in StoredIds("initiatives"), status \in StatusArgs :
        ErrorsReturn("update_status", <<initiative_id, status>>,
                     InitiativeService_update_status(db, clock, initiative_id,
                                                     status))

NextErrors ==
    \/ ErrorsCreatePlan
    \/ ErrorsUpdatePlan
    \/ ErrorsDeletePlan
    \/ ErrorsCreateIssue
    \/ ErrorsUpdateIssue
    \/ ErrorsDeleteIssue
    \/ ErrorsCreateKpi
    \/ ErrorsUpdateKpi
    \/ ErrorsDeleteKpi
    \/ ErrorsUpdateProgress
    \/ ErrorsCreateInitiative
    \/ ErrorsUpdateInitiative
    \/ ErrorsDeleteInitiative
    \/ ErrorsUpdateStatus
    \/ Exit

SpecErrors == Init /\ [][NextErrors]_vars

\* C7: a create, update, update_status, update_progress or delete call of a
\* service that returns an error message leaves the store as it was before
\* the call: no row of any of the four tables is inserted, changed or
\* deleted.
C7_ErrorLeavesStoreUnchanged ==
    ret.error # None => db = pre

\* an update_status with a status outside VALID_STATUSES on a stored
\* initiative returned an error
C7_Witness ==
    /\ ret.op = "update_status"
    /\ ret.args[1] # None
    /\ Val(ret.args[1]) \in DOMAIN pre.initiatives
    /\ Val(ret.args[2]) \notin VALID_STATUSES
    /\ ret.value = Some(FALSE)
    /\ ret.error # None
    /\ db.initiatives[Val(ret.args[1])].status = Some(STATUS_NOT_STARTED)

----------------------------------------------------------------------------
(* SpecReorder: issues created, updated, reprioritised and listed, with    *)
(* the KPIs and initiatives of an issue                                     *)

ReorderReturn(op, args, r) ==
    Call(Inserted(r.db) <= ReorderMaxRows, op, args, r)

\* a query: the store is left alone and the list is the value returned
Query(d, value) == [db |-> d, value |-> value, error |-> None, raised |-> None]

\* the lists of at most ReorderMaxLen ids, of stored issues and of one that
\* is not stored, with repetitions
IssueIdLists ==
    UNION {[1..n -> 1..(db.sqlite_sequence.strategic_issues + 1)] :
              n \in 0..ReorderMaxLen}

ReorderCreatePlan ==
    ReorderReturn("create_plan", <<>>,
                  PlanService_create_plan(db, clock, Some("a"), None, None,
                                          None))

ReorderCreateIssue ==
    \E plan_id \in StoredIds("strategic_plans"), priority \in {None, Some(2)} :
        ReorderReturn("create_issue", <<plan_id, priority>>,
                      IssueService_create_issue(db, clock, plan_id, Some("a"),
                                                None, priority))

ReorderUpdateIssue ==
    \E issue_id \in StoredIds("strategic_issues") :
        ReorderReturn("update_issue", <<issue_id, Some(1)>>,
                      IssueService_update_issue(db, clock, issue_id, None,
                                                None, Some(1)))

ReorderCreateKpi ==
    \E issue_id \in StoredIds("strategic_issues") :
        ReorderReturn("create_kpi", <<issue_id>>,
                      KPIService_create_kpi(db, clock, issue_id, Some("a"),
                                            None, None, None, None))

ReorderCreateInitiative ==
    \E issue_id \in StoredIds("strategic_issues") :
        ReorderReturn("create_initiative", <<issue_id>>,
                      InitiativeService_create_initiative(db, clock, issue_id,
                          Some("a"), None, None, None, None, None))

\* the ids of the plans ever stored, and the next one, which is not stored
PlanIdArgs == IdsUpTo(db.sqlite_sequence.strategic_plans)

ReorderPriorities ==
    \E plan_id \in PlanIdArgs, issue_ids \in IssueIdLists :
        ReorderReturn("reorder_priorities", <<plan_id, issue_ids>>,
                      IssueService_reorder_priorities(db, clock, plan_id,
                                                      issue_ids))

GetByPlanId ==
    \E plan_id \in StoredIds("strategic_plans") :
        ReorderReturn("StrategicIssue.get_by_plan_id", <<plan_id>>,
                      Query(db, StrategicIssue_get_by_plan_id(db, plan_id)))

GetKpisByIssueId ==
    \E issue_id \in StoredIds("strategic_issues") :
        ReorderReturn("KPI.get_by_issue_id", <<issue_id>>,
                      Query(db, KPI_get_by_issue_id(db, issue_id)))

GetInitiativesByIssueId ==
    \E issue_id \in StoredIds("strategic_issues") :
        ReorderReturn("Initiative.get_by_issue_id", <<issue_id>>,
                      Query(db, Initiative_get_by_issue_id(db, issue_id)))

NextReorder ==
    \/ ReorderCreatePlan
    \/ ReorderCreateIssue
    \/ ReorderUpdateIssue
    \/ ReorderCreateKpi
    \/ ReorderCreateInitiative
    \/ ReorderPriorities
    \/ GetByPlanId
    \/ GetKpisByIssueId
    \/ GetInitiativesByIssueId
    \/ Exit

SpecReorder == Init /\ [][NextReorder]_vars

----------------------------------------------------------------------------
(* Claims on priorities and listings, under SpecReorder *)

\* the ids of the issues that plan plan_id has in store d
IssuesOfPlan(d, plan_id) ==
    {i \in DOMAIN d.strategic_issues : d.strategic_issues[i].plan_id = plan_id}

\* the call was reorder_priorities on a stored plan with a list of ids that
\* are all issues of that plan
ReorderOfOwnIssues ==
    /\ ret.op = "reorder_priorities"
    /\ ret.args[1] # None
    /\ Val(ret.args[1]) \in DOMAIN pre.strategic_plans
    /\ \A k \in 1..Len(ret.args[2]) :
          ret.args[2][k] \in IssuesOfPlan(pre, ret.args[1])

\* position k is the last one of the list that holds the id it holds
LastOccurrence(issue_ids, k) ==
    \A j \in (k + 1)..Len(issue_ids) : issue_ids[j] # issue_ids[k]

\* C8, as stated: reorder_priorities on a list of ids that all belong to the
\* plan succeeds and leaves the issue at every position of the list with a
\* priority equal to that position, also when the list repeats an id.
C8_PriorityIsEveryPosition ==
    ReorderOfOwnIssues =>
        /\ ret.value = Some(TRUE)
        /\ ret.error = None
        /\ \A k \in 1..Len(ret.args[2]) :
              db.strategic_issues[ret.args[2][k]].priority = Some(k)

\* C8, amended: reorder_priorities on a list of ids that all belong to the
\* plan succeeds and leaves each listed issue with a priority equal to the
\* 1-based position of its last occurrence in the list (its position, when
\* the list does not repeat it), and every other row as it was.
C8_PriorityIsLastPosition ==
    ReorderOfOwnIssues =>
        /\ ret.value = Some(TRUE)
        /\ ret.error = None
        /\ \A k \in 1..Len(ret.args[2]) :
              LastOccurrence(ret.args[2], k) =>
                  db.strategic_issues[ret.args[2][k]].priority = Some(k)
        /\ \A i \in DOMAIN pre.strategic_issues :
              (\A k \in 1..Len(ret.args[2]) : ret.args[2][k] # i) =>
                  db.strategic_issues[i] = pre.strategic_issues[i]
        /\ DOMAIN db.strategic_issues = DOMAIN pre.strategic_issues
        /\ \A t \in Tables \ {"strategic_issues"} : db[t] = pre[t]

\* a reorder of two different issues, the second of them first, succeeded
\* and changed the priority of both
C8_Witness ==
    /\ ReorderOfOwnIssues
    /\ Len(ret.args[2]) = 2
    /\ ret.args[2][1] > ret.args[2][2]
    /\ ret.value = Some(TRUE)
    /\ pre.strategic_issues[ret.args[2][1]].priority # Some(1)
    /\ pre.strategic_issues[ret.args[2][2]].priority # Some(2)
    /\ db.strategic_issues[ret.args[2][1]].priority = Some(1)
    /\ db.strategic_issues[ret.args[2][2]].priority = Some(2)

\* the call was reorder_priorities and the plan is not stored, or some id of
\* the list is not an issue of the plan
ReorderToReject ==
    /\ ret.op = "reorder_priorities"
    /\ \/ ret.args[1] = None
       \/ Val(ret.args[1]) \notin DOMAIN pre.strategic_plans
       \/ \E k \in 1..Len(ret.args[2]) :
             ret.args[2][k] \notin IssuesOfPlan(pre, ret.args[1])

\* C9: reorder_priorities with a plan that does not exist, or with a list
\* that holds, anywhere, an id that is not an issue of the plan, returns
\* (False, error) and leaves the priority of every issue unchanged, the
\* valid ids that come before the offending one included.
C9_ReorderAllOrNothing ==
    ReorderToReject =>
        /\ ret.value = Some(FALSE)
        /\ ret.error # None
        /\ DOMAIN db.strategic_issues = DOMAIN pre.strategic_issues
        /\ \A i \in DOMAIN pre.strategic_issues :
              db.strategic_issues[i].priority
                  = pre.strategic_issues[i].priority

\* a reorder whose list has an issue of the plan first, with another
\* priority than 1, and an id that is none of the plan's second, was rejected
C9_Witness ==
    /\ ReorderToReject
    /\ ret.args[1] # None
    /\ Val(ret.args[1]) \in DOMAIN pre.strategic_plans
    /\ Len(ret.args[2]) = 2
    /\ ret.args[2][1] \in IssuesOfPlan(pre, ret.args[1])
    /\ ret.args[2][2] \notin IssuesOfPlan(pre, ret.args[1])
    /\ pre.strategic_issues[ret.args[2][1]].priority # Some(1)
    /\ ret.value = Some(FALSE)
    /\ db.strategic_issues[ret.args[2][1]].priority # Some(1)

\* the ids of the rows of a table whose column parent holds parent_id
ChildrenOf(d, table, parent, parent_id) ==
    {i \in DOMAIN d[table] : d[table][i][parent] = parent_id}

\* the list holds one entity for each id of ids, and no other entry
ListsExactly(list, ids) ==
    /\ Len(list) = Cardinality(ids)
    /\ {Val(list[k].id) : k \in 1..Len(list)} = ids

\* a comes before b by (priority, id), where both have a priority or
\* neither has
PriorityThenId(a, b) ==
    IF a.priority # None /\ b.priority # None
    THEN \/ Val(a.priority) < Val(b.priority)
         \/ Val(a.priority) = Val(b.priority) /\ Val(a.id) < Val(b.id)
    ELSE (a.priority = None /\ b.priority = None) => Val(a.id) < Val(b.id)

\* C10: StrategicIssue.get_by_plan_id returns exactly the stored issues of
\* the plan, ordered by priority ascending and then by id ascending;
\* KPI.get_by_issue_id and Initiative.get_by_issue_id return exactly the
\* stored children of the issue, ordered by id ascending.
C10_ListingsOrdered ==
    /\ ret.op = "StrategicIssue.get_by_plan_id" =>
          /\ ListsExactly(ret.value,
                 ChildrenOf(db, "strategic_issues", "plan_id", ret.args[1]))
          /\ \A k \in 1..Len(ret.value) :
                /\ ret.value[k] = StrategicIssue_from_dict(
                       db.strategic_issues[Val(ret.value[k].id)])
                /\ \A j \in 1..(k - 1) :
                      PriorityThenId(ret.value[j], ret.value[k])
    /\ ret.op = "KPI.get_by_issue_id" =>
          /\ ListsExactly(ret.value,
                 ChildrenOf(db, "kpis", "issue_id", ret.args[1]))
          /\ \A k \in 1..Len(ret.value) : \A j \in 1..(k - 1) :
                Val(ret.value[j].id) < Val(ret.value[k].id)
    /\ ret.op = "Initiative.get_by_issue_id" =>
          /\ ListsExactly(ret.value,
                 ChildrenOf(db, "initiatives", "issue_id", ret.args[1]))
          /\ \A k \in 1..Len(ret.value) : \A j \in 1..(k - 1) :
                Val(ret.value[j].id) < Val(ret.value[k].id)

\* a listing of a plan returned an issue with a larger id and a smaller
\* priority before an issue with a smaller id
C10_Witness ==
    /\ ret.op = "StrategicIssue.get_by_plan_id"
    /\ Len(ret.value) >= 2
    /\ Val(ret.value[1].id) > Val(ret.value[2].id)
    /\ ret.value[1].priority # None
    /\ ret.value[2].priority # None
    /\ Val(ret.value[1].priority) < Val(ret.value[2].priority)

----------------------------------------------------------------------------
(* SpecReports: plans filled with issues, KPIs and initiatives through the  *)
(* services, and the summaries and reports asked of them                   *)

ReportsReturn(op, args, r) ==
    Call(Inserted(r.db) <= ReportsMaxRows, op, args, r)

ReportsCreatePlan ==
    ReportsReturn("create_plan", <<Some("a")>>,
                  PlanService_create_plan(db, clock, Some("a"), None, None,
                                          None))

ReportsCreateIssue ==
    \E plan_id \in PlanIdArgs :
        ReportsReturn("create_issue", <<plan_id>>,
                      IssueService_create_issue(db, clock, plan_id, Some("a"),
                                                None, None))

IssueIdArgs == IdsUpTo(db.sqlite_sequence.strategic_issues)

\* (target_value, current_value)
KpiValueArgs ==
    {<<None, None>>, <<Some(2), None>>, <<Some(0), Some(1)>>,
     <<Some(2), Some(0)>>, <<Some(100), Some(75)>>, <<Some(2), Some(2)>>,
     <<Some(2), Some(3)>>, <<TextFloat, Some(1)>>}

ReportsCreateKpi ==
    \E issue_id \in IssueIdArgs, a \in KpiValueArgs :
        ReportsReturn("create_kpi", <<issue_id>> \o a,
                      KPIService_create_kpi(db, clock, issue_id, Some("a"),
                                            None, a[1], a[2], None))

\* (status, budget)
InitiativeValueArgs ==
    {<<None, None>>, <<Some(STATUS_COMPLETED), Some(0)>>,
     <<Some(STATUS_IN_PROGRESS), Some(3)>>, <<Some(STATUS_COMPLETED), Some(2)>>,
     <<None, TextFloat>>}

ReportsCreateInitiative ==
    \E issue_id \in IssueIdArgs, a \in InitiativeValueArgs :
        ReportsReturn("create_initiative", <<issue_id>> \o a,
                      InitiativeService_create_initiative(
                          db, clock, issue_id, Some("a"), None, a[1], a[2],
                          None, None))

GetPlanSummary ==
    \E plan_id \in PlanIdArgs :
        ReportsReturn("PlanService.get_plan_summary", <<plan_id>>,
                      PlanService_get_plan_summary(db, plan_id))

GetIssueSummary ==
    \E issue_id \in IssueIdArgs :
        ReportsReturn("IssueService.get_issue_summary", <<issue_id>>,
                      IssueService_get_issue_summary(db, issue_id))

GetKpiProgress ==
    \E kpi_id \in IdsUpTo(db.sqlite_sequence.kpis) :
        ReportsReturn("KPIService.get_kpi_progress", <<kpi_id>>,
                      KPIService_get_kpi_progress(db, kpi_id))

GeneratePlanSummary ==
    \E plan_id \in PlanIdArgs :
        ReportsReturn("ReportService.generate_plan_summary", <<plan_id>>,
                      ReportService_generate_plan_summary(db, plan_id))

GenerateKpiSummary ==
    \E plan_id \in PlanIdArgs :
        ReportsReturn("ReportService.generate_kpi_summary", <<plan_id>>,
                      ReportService_generate_kpi_summary(db, plan_id))

GenerateInitiativeSummary ==
    \E plan_id \in PlanIdArgs :
        ReportsReturn("ReportService.generate_initiative_summary",
                      <<plan_id>>,
                      ReportService_generate_initiative_summary(db, plan_id))

NextReports ==
    \/ ReportsCreatePlan
    \/ ReportsCreateIssue
    \/ ReportsCreateKpi
    \/ ReportsCreateInitiative
    \/ GetPlanSummary
    \/ GetIssueSummary
    \/ GetKpiProgress
    \/ GeneratePlanSummary
    \/ GenerateKpiSummary
    \/ GenerateInitiativeSummary
    \/ Exit

SpecReports == Init /\ [][NextReports]_vars

\* the call under way returned a summary: no error and no exception
Produced(op) ==
    ret.op = op /\ ret.error = None /\ ret.raised = None

\* the value of a stored KPI's progress, from its row: current * 100 / target
\* where both values are stored and the target is not 0
HasProgress(row) ==
    /\ row.target_value # None
    /\ row.current_value # None
    /\ row.target_value # Some(0)

\* p is the fraction current_value / target_value * 100 of the row
IsProgressOf(p, row) ==
    /\ p[2] > 0
    /\ p[1] * Val(row.target_value) = Val(row.current_value) * 100 * p[2]

\* the stored KPIs of an issue that have a progress, and the sum of these
\* progress values
KpisWithProgress(d, issue_id) ==
    {k \in ChildrenOf(d, "kpis", "issue_id", issue_id) :
        HasProgress(d.kpis[k])}

RECURSIVE ProgressOver(_, _)
ProgressOver(d, ids) ==
    IF ids = {} THEN <<0, 1>>
    ELSE LET k == CHOOSE x \in ids : TRUE
         IN  FractionAdd(Fraction(Val(d.kpis[k].current_value) * 100,
                                  Val(d.kpis[k].target_value)),
                         ProgressOver(d, ids \ {k}))

\* C11: in a summary that ReportService.generate_plan_summary returns, each
\* issue's kpi_progress is the mean of the progress values of the issue's
\* KPIs that have a progress, and None when the issue has no such KPI, also
\* when it has KPIs that all lack a value or have target 0
C11_MeanOverDefinedProgress ==
    Produced("ReportService.generate_plan_summary") =>
        \A k \in 1..Len(Val(ret.value).issues) :
            LET s == Val(ret.value).issues[k]
                defined == KpisWithProgress(db, s.issue.id)
            IN  IF defined = {} THEN s.kpi_progress = None
                ELSE s.kpi_progress =
                         Some(FractionDiv(ProgressOver(db, defined),
                                          Cardinality(defined)))

\* C12: the progress that KPIService.get_kpi_progress reports for a KPI is
\* None when the KPI has no target_value, no current_value or a
\* target_value of 0, and is current_value / target_value * 100 otherwise:
\* 75 for target 100 and current 75, and 0, not None, for a current_value of
\* 0 with a target that is not 0
C12_Progress ==
    Produced("KPIService.get_kpi_progress") =>
        LET kpi == Val(ret.value).kpi
            progress == Val(ret.value).progress
        IN  IF ~HasProgress(kpi) THEN progress = None
            ELSE /\ progress # None
                 /\ IsProgressOf(Val(progress), kpi)
                 /\ kpi.current_value = Some(0) => progress = Some(<<0, 1>>)
                 /\ (kpi.target_value = Some(100)
                        /\ kpi.current_value = Some(75))
                        => progress = Some(<<75, 1>>)

C12_Witness ==
    /\ Produced("KPIService.get_kpi_progress")
    /\ Val(ret.value).kpi.target_value = Some(100)
    /\ Val(ret.value).kpi.current_value = Some(75)
    /\ Val(ret.value).progress = Some(<<75, 1>>)

\* the sum of the stored budgets of the initiatives ids, an absent one as 0
RECURSIVE BudgetOver(_, _)
BudgetOver(d, ids) ==
    IF ids = {} THEN 0
    ELSE LET i == CHOOSE x \in ids : TRUE
             budget == d.initiatives[i].budget
         IN  (IF budget = None THEN 0 ELSE Val(budget))
                 + BudgetOver(d, ids \ {i})

\* the per-issue entries of a plan summary: one for each issue of the plan,
\* each with the issue's stored KPIs and initiatives counted and the
\* initiatives' budgets added up
IssueEntriesExact(summary, plan_id) ==
    /\ Len(summary.issues) = Cardinality(IssuesOfPlan(db, plan_id))
    /\ {Val(summary.issues[k].issue.id) : k \in 1..Len(summary.issues)}
           = IssuesOfPlan(db, plan_id)
    /\ \A k \in 1..Len(summary.issues) :
           LET s == summary.issues[k]
               kpis == ChildrenOf(db, "kpis", "issue_id", s.issue.id)
               initiatives == ChildrenOf(db, "initiatives", "issue_id",
                                         s.issue.id)
           IN  /\ s.budget = BudgetOver(db, initiatives)
               /\ s.kpi_count = Cardinality(kpis)
               /\ s.initiative_count = Cardinality(initiatives)

\* the plan's totals are the sums of the per-issue values
TotalsAreSums(summary) ==
    LET issues == summary.issues
    IN  /\ summary.total_budget =
               Sum([k \in 1..Len(issues) |-> issues[k].budget])
        /\ summary.kpi_count =
               Sum([k \in 1..Len(issues) |-> issues[k].kpi_count])
        /\ summary.initiative_count =
               Sum([k \in 1..Len(issues) |-> issues[k].initiative_count])

\* C13: in the summaries that PlanService.get_plan_summary,
\* IssueService.get_issue_summary and ReportService.generate_plan_summary
\* return, an issue's budget is the sum of the budgets of the initiatives
\* stored under the issue, an absent budget counted as 0, and the plan's
\* total_budget, kpi_count and initiative_count are the sums of the per-issue
\* values over all issues of the plan
C13_BudgetsAndTotals ==
    /\ \A op \in {"PlanService.get_plan_summary",
                   "ReportService.generate_plan_summary"} :
           Produced(op) =>
               /\ IssueEntriesExact(Val(ret.value), ret.args[1])
               /\ TotalsAreSums(Val(ret.value))
    /\ Produced("IssueService.get_issue_summary") =>
           LET s == Val(ret.value)
               kpis == ChildrenOf(db, "kpis", "issue_id", ret.args[1])
               initiatives == ChildrenOf(db, "initiatives", "issue_id",
                                         ret.args[1])
           IN  /\ s.total_budget = BudgetOver(db, initiatives)
               /\ s.kpi_count = Cardinality(kpis)
               /\ s.initiative_count = Cardinality(initiatives)

\* a plan summary over two initiatives, one without a budget and one with 3
C13_Witness ==
    /\ Produced("ReportService.generate_plan_summary")
    /\ Val(ret.value).initiative_count = 2
    /\ Val(ret.value).total_budget = 3
    /\ \E i \in DOMAIN db.initiatives : db.initiatives[i].budget = None

\* the stored initiatives of the issues of a plan
InitiativesOfPlan(d, plan_id) ==
    {i \in DOMAIN d.initiatives :
        \E issue \in IssuesOfPlan(d, plan_id) :
            d.initiatives[i].issue_id = Some(issue)}

\* C14: ReportService.generate_initiative_summary of a stored plan returns a
\* report and does not fail; the report gives, for each of the five status
\* values, the number of the plan's initiatives with that status and that
\* number as a percentage of initiative_count; the five counts add up to
\* initiative_count, and every percentage is 0 for a plan without initiatives
C14_StatusDistribution ==
    (ret.op = "ReportService.generate_initiative_summary"
        /\ ret.error = None) =>
        /\ ret.raised = None
        /\ LET s == Val(ret.value)
                own == InitiativesOfPlan(db, ret.args[1])
            IN  /\ s.initiative_count = Cardinality(own)
                /\ DOMAIN s.status_counts = VALID_STATUSES
                /\ DOMAIN s.status_distribution = VALID_STATUSES
                /\ \A status \in VALID_STATUSES :
                       /\ s.status_counts[status] =
                              Cardinality({i \in own :
                                  db.initiatives[i].status = Some(status)})
                       /\ s.status_distribution[status][2] > 0
                       /\ s.status_distribution[status][1]
                                * s.initiative_count
                              = s.status_counts[status] * 100
                                    * s.status_distribution[status][2]
                       /\ s.initiative_count = 0 =>
                              s.status_distribution[status] = <<0, 1>>
                /\ Sum([k \in 1..5 |->
                           s.status_counts[
                               <<STATUS_NOT_STARTED, STATUS_IN_PROGRESS,
                                 STATUS_COMPLETED, STATUS_DELAYED,
                                 STATUS_CANCELLED>>[k]]])
                       = s.initiative_count

\* the stored KPI has both values, a target that is not 0, and a
\* current_value that is at least the target: its progress is at least 100
ReachesTarget(row) ==
    /\ HasProgress(row)
    /\ IF Val(row.target_value) > 0
       THEN Val(row.current_value) >= Val(row.target_value)
       ELSE Val(row.current_value) <= Val(row.target_value)

\* the stored KPIs of the issues of a plan
KpisOfPlan(d, plan_id) ==
    {k \in DOMAIN d.kpis :
        \E issue \in IssuesOfPlan(d, plan_id) :
            d.kpis[k].issue_id = Some(issue)}

\* is_achieved of an entry that carries a KPI and its progress
AchievedEntry(entry) ==
    /\ entry.is_achieved = ReachesTarget(entry.kpi)
    /\ entry.is_achieved =
           (entry.progress # None /\ FractionGe(Val(entry.progress), 100))

\* C15: KPIService.get_kpi_progress and ReportService.generate_kpi_summary
\* report a KPI as achieved, and the reports count it in kpi_achieved, if and
\* only if its progress is defined and at least 100; a KPI without a
\* progress is not counted, and kpi_achieved is at most kpi_count
C15_AchievedIffProgressAtLeast100 ==
    /\ Produced("KPIService.get_kpi_progress") =>
           AchievedEntry(Val(ret.value))
    /\ Produced("ReportService.generate_kpi_summary") =>
           LET s == Val(ret.value)
               own == KpisOfPlan(db, ret.args[1])
           IN  /\ \A k \in 1..Len(s.kpi_data) : AchievedEntry(s.kpi_data[k])
               /\ s.kpi_count = Cardinality(own)
               /\ s.kpi_achieved =
                      Cardinality({k \in own : ReachesTarget(db.kpis[k])})
               /\ s.kpi_achieved <= s.kpi_count
    /\ Produced("ReportService.generate_plan_summary") =>
           \A k \in 1..Len(Val(ret.value).issues) :
               LET s == Val(ret.value).issues[k]
                   kpis == ChildrenOf(db, "kpis", "issue_id", s.issue.id)
               IN  /\ s.kpi_achieved =
                          Cardinality({i \in kpis :
                                          ReachesTarget(db.kpis[i])})
                   /\ s.kpi_achieved <= s.kpi_count

\* a KPI report over a KPI without a progress and a KPI at 100 or above
C15_Witness ==
    /\ Produced("ReportService.generate_kpi_summary")
    /\ Val(ret.value).kpi_count = 2
    /\ Val(ret.value).kpi_achieved = 1
    /\ \E k \in 1..2 :
           /\ Val(ret.value).kpi_data[k].progress = None
           /\ ~Val(ret.value).kpi_data[k].is_achieved

----------------------------------------------------------------------------
(* SpecStatus: initiatives created and updated with and without a status,  *)
(* with statuses inside and outside the five values                        *)

StatusReturn(op, args, r) ==
    Call(Inserted(r.db) <= StatusMaxRows, op, args, r)

StatusCreatePlan ==
    StatusReturn("create_plan", <<Some("a")>>,
                 PlanService_create_plan(db, clock, Some("a"), None, None,
                                         None))

StatusCreateIssue ==
    \E plan_id \in PlanIdArgs :
        StatusReturn("create_issue", <<plan_id>>,
                     IssueService_create_issue(db, clock, plan_id, Some("a"),
                                               None, None))

\* no status, two of the five values, and two strings outside them
StatusValueArgs ==
    {None, Some(STATUS_IN_PROGRESS), Some(STATUS_COMPLETED),
     Some("InvalidValue"), Some("")}

InitiativeIdArgs == IdsUpTo(db.sqlite_sequence.initiatives)

StatusCreateInitiative ==
    \E issue_id \in IssueIdArgs, status \in StatusValueArgs :
        StatusReturn("create_initiative", <<issue_id, status>>,
                     InitiativeService_create_initiative(
                         db, clock, issue_id, Some("a"), None, status, None,
                         None, None))

StatusUpdateInitiative ==
    \E initiative_id \in InitiativeIdArgs, status \in StatusValueArgs :
        StatusReturn("update_initiative", <<initiative_id, status>>,
                     InitiativeService_update_initiative(
                         db, clock, initiative_id, None, None, status, None,
                         None, None))

StatusUpdateStatus ==
    \E initiative_id \in InitiativeIdArgs, status \in StatusValueArgs :
        StatusReturn("update_status", <<initiative_id, status>>,
                     InitiativeService_update_status(db, clock, initiative_id,
                                                     status))

NextStatus ==
    \/ StatusCreatePlan
    \/ StatusCreateIssue
    \/ StatusCreateInitiative
    \/ StatusUpdateInitiative
    \/ StatusUpdateStatus
    \/ Exit

SpecStatus == Init /\ [][NextStatus]_vars

\* the call under way was one of the three operations on initiatives
OnInitiative ==
    ret.op \in {"create_initiative", "update_initiative", "update_status"}

\* C16: every stored initiative's status is one of the five values; an
\* initiative created with no status is stored as NOT_STARTED; and a
\* create_initiative, update_initiative or update_status given a status
\* outside the five values returns an error
C16_StatusIsOneOfFive ==
    /\ \A i \in DOMAIN db.initiatives :
           /\ db.initiatives[i].status # None
           /\ Val(db.initiatives[i].status) \in VALID_STATUSES
    /\ (ret.op = "create_initiative" /\ ret.args[2] = None
           /\ ret.error = None) =>
           db.initiatives[Val(ret.value)].status = Some(STATUS_NOT_STARTED)
    /\ (OnInitiative /\ ret.args[2] # None
           /\ Val(ret.args[2]) \notin VALID_STATUSES) =>
           ret.error # None

----------------------------------------------------------------------------
(* SpecSave: save() and delete() of the four models, on entities with no   *)
(* id, with the id of a stored row and with an id that names no row        *)

SaveReturn(op, args, r) ==
    Call(Inserted(r.db) <= SaveMaxRows, op, args, r)

\* a name, another one, and none, which the NOT NULL column refuses
NameArgs == {Some("a"), Some("b"), None}

PlanSave ==
    \E id \in StoredIds("strategic_plans"), name \in NameArgs :
        SaveReturn("StrategicPlan.save", <<id, name>>,
                   Saved(StrategicPlan_save(
                             db, clock,
                             [PlanEntity(id) EXCEPT !.name = name])))

IssueSave ==
    \E id \in StoredIds("strategic_issues"), name \in NameArgs,
       plan_id \in PlanIdArgs :
        SaveReturn("StrategicIssue.save", <<id, name, plan_id>>,
                   Saved(StrategicIssue_save(
                             db, clock,
                             [IssueEntity(id, plan_id) EXCEPT !.name = name])))

KpiSave ==
    \E id \in StoredIds("kpis"), name \in NameArgs,
       issue_id \in IssueIdArgs :
        SaveReturn("KPI.save", <<id, name, issue_id>>,
                   Saved(KPI_save(
                             db, clock,
                             [KpiEntity(id, issue_id) EXCEPT !.name = name])))

InitiativeSave ==
    \E id \in StoredIds("initiatives"), name \in NameArgs,
       issue_id \in IssueIdArgs :
        SaveReturn("Initiative.save", <<id, name, issue_id>>,
                   Saved(Initiative_save(
                             db, clock,
                             [InitiativeEntity(id, issue_id)
                                 EXCEPT !.name = name])))

PlanDelete ==
    \E id \in StoredIds("strategic_plans") :
        SaveReturn("StrategicPlan.delete", <<id>>,
                   Deleted(StrategicPlan_delete(db, PlanEntity(id))))

IssueDelete ==
    \E id \in StoredIds("strategic_issues") :
        SaveReturn("StrategicIssue.delete", <<id>>,
                   Deleted(StrategicIssue_delete(db, IssueEntity(id, None))))

NextSave ==
    \/ PlanSave
    \/ IssueSave
    \/ KpiSave
    \/ InitiativeSave
    \/ PlanDelete
    \/ IssueDelete
    \/ Exit

SpecSave == Init /\ [][NextSave]_vars

\* the table each save() writes
SaveTable ==
    [x \in {"StrategicPlan.save", "StrategicIssue.save", "KPI.save",
            "Initiative.save"} |->
        CASE x = "StrategicPlan.save" -> "strategic_plans"
          [] x = "StrategicIssue.save" -> "strategic_issues"
          [] x = "KPI.save" -> "kpis"
          [] x = "Initiative.save" -> "initiatives"]

\* the rows ids of the table are the same before and after the call
RowsKept(table, ids) ==
    \A i \in ids : i \in DOMAIN db[table] /\ db[table][i] = pre[table][i]

\* C17: a save() that returns, on an entity with no id, adds exactly one row
\* and returns a positive id that no other row of the table has; on an
\* entity with an id it changes at most the row with that id, adds no row
\* and returns the same id, so the table has as many rows as before; no
\* save() touches another table, and a save() that raises changes nothing
C17_SaveInsertsOrUpdatesOneRow ==
    ret.op \in DOMAIN SaveTable =>
        LET table == SaveTable[ret.op]
            id == ret.args[1]
        IN  IF ret.raised # None THEN db = pre
            ELSE /\ \A other \in Tables \ {table} : db[other] = pre[other]
                 /\ IF id = None
                    THEN /\ ret.value # None
                         /\ Val(ret.value) > 0
                         /\ Val(ret.value) \notin DOMAIN pre[table]
                         /\ DOMAIN db[table] =
                                DOMAIN pre[table] \cup {Val(ret.value)}
                         /\ RowsKept(table, DOMAIN pre[table])
                         /\ db[table][Val(ret.value)].id = ret.value
                    ELSE /\ ret.value = id
                         /\ DOMAIN db[table] = DOMAIN pre[table]
                         /\ RowsKept(table, DOMAIN pre[table] \ {Val(id)})
                         /\ Val(id) \in DOMAIN db[table] =>
                                db[table][Val(id)].id = id

\* save() on a plan with the id of one of two stored plans changed that row
C17_Witness ==
    /\ ret.op = "StrategicPlan.save"
    /\ ret.args[1] # None
    /\ ret.raised = None
    /\ Cardinality(DOMAIN db.strategic_plans) = 2
    /\ db # pre

----------------------------------------------------------------------------
(* SpecDatabase: Database.insert, update and delete called directly on the *)
(* plans and issues tables, with ids that match a row and ids that do not  *)

DatabaseReturn(op, args, r) ==
    Call(Inserted(r.db) <= DatabaseMaxRows, op, args, r)

\* Database.insert returning the new id, or raising
Inserted_row(r) ==
    [db |-> r.db, value |-> r.value, error |-> None, raised |-> r.raised]

\* Database.update returning True or False, or raising
Updated(r) ==
    [db |-> r.db, value |-> IF r.raised = None THEN Some(r.value) ELSE None,
     error |-> None, raised |-> r.raised]

DatabaseInsertPlan ==
    DatabaseReturn("Database.insert", <<"strategic_plans">>,
                   Inserted_row(Database_insert(db, clock, "strategic_plans",
                                                [name |-> Some("a")])))

DatabaseInsertIssue ==
    \E plan_id \in PlanIdArgs :
        DatabaseReturn("Database.insert", <<"strategic_issues", plan_id>>,
                       Inserted_row(Database_insert(
                           db, clock, "strategic_issues",
                           [plan_id |-> plan_id, name |-> Some("a")])))

\* the data of an update: no column, a new name, and no name, which the
\* NOT NULL column refuses
UpdateData ==
    {[c \in {} |-> None], [name |-> Some("b")], [name |-> None]}

DatabaseUpdatePlan ==
    \E id \in StoredIds("strategic_plans"), data \in UpdateData :
        DatabaseReturn("Database.update", <<"strategic_plans", id, data>>,
                       Updated(Database_update(db, "strategic_plans", id,
                                               data)))

\* for an issue also another plan_id, stored or not
DatabaseUpdateIssue ==
    \E id \in StoredIds("strategic_issues"),
       data \in UpdateData \cup {[plan_id |-> p] : p \in PlanIdArgs} :
        DatabaseReturn("Database.update", <<"strategic_issues", id, data>>,
                       Updated(Database_update(db, "strategic_issues", id,
                                               data)))

DatabaseDelete ==
    \E table \in {"strategic_plans", "strategic_issues"} :
        \E id \in StoredIds(table) :
            DatabaseReturn("Database.delete", <<table, id>>,
                           Deleted(Database_delete(db, table, id)))

NextDatabase ==
    \/ DatabaseInsertPlan
    \/ DatabaseInsertIssue
    \/ DatabaseUpdatePlan
    \/ DatabaseUpdateIssue
    \/ DatabaseDelete
    \/ Exit

SpecDatabase == Init /\ [][NextDatabase]_vars

\* the id given to the call matched a row of the table when it was made
MatchesRow ==
    /\ ret.args[2] # None
    /\ Val(ret.args[2]) \in DOMAIN pre[ret.args[1]]

\* the call returned False, raised nothing and left every row as it was
FalseAndUnchanged ==
    ret.raised = None /\ ret.value = Some(FALSE) /\ db = pre

\* the call returned True and the row has the values given
TrueAndModified ==
    /\ ret.raised = None
    /\ ret.value = Some(TRUE)
    /\ \A c \in DOMAIN ret.args[3] :
           db[ret.args[1]][Val(ret.args[2])][c] = ret.args[3][c]

\* the call returned True and the row can no longer be fetched
TrueAndGone ==
    /\ ret.raised = None
    /\ ret.value = Some(TRUE)
    /\ Database_fetch_one(db, ret.args[1], ret.args[2]) = None

\* C18 as claimed: for an id that matches no row, Database.update and
\* Database.delete return False, do not raise and change no row; for an id
\* that matches a row they return True, and the row is modified or gone
C18_FalseIffNoRowMatches ==
    /\ ret.op = "Database.update" =>
           IF MatchesRow THEN TrueAndModified ELSE FalseAndUnchanged
    /\ ret.op = "Database.delete" =>
           IF MatchesRow THEN TrueAndGone ELSE FalseAndUnchanged

\* the values given to an update are ones the table's constraints accept:
\* a name that is not NULL, a plan_id that names a stored plan
Acceptable(data) ==
    /\ "name" \in DOMAIN data => data.name # None
    /\ "plan_id" \in DOMAIN data =>
           data.plan_id # None
               /\ Val(data.plan_id) \in DOMAIN pre.strategic_plans

\* C18: for an id that matches no row, Database.update and Database.delete
\* return False, do not raise and change no row; for an id that matches a
\* row, Database.delete returns True and the row is gone, and
\* Database.update returns True with the row modified when it is given at
\* least one column and values the constraints accept, returns False and
\* changes nothing when given no column, and raises and changes nothing
\* when a value breaks a constraint
C18_FalseIffNoRowMatchesOrNoData ==
    /\ ret.op = "Database.update" =>
           IF ~MatchesRow \/ DOMAIN ret.args[3] = {} THEN FalseAndUnchanged
           ELSE IF Acceptable(ret.args[3]) THEN TrueAndModified
           ELSE ret.raised = Some("IntegrityError") /\ db = pre
    /\ ret.op = "Database.delete" =>
           IF MatchesRow THEN TrueAndGone ELSE FalseAndUnchanged

\* an update of a stored row with a new name returned True and changed it
C18_Witness ==
    /\ ret.op = "Database.update"
    /\ MatchesRow
    /\ "name" \in DOMAIN ret.args[3]
    /\ ret.value = Some(TRUE)
    /\ db # pre

----------------------------------------------------------------------------
(* the pairs the services return, under SpecErrors                         *)

\* the table each service operation writes
ServiceTable ==
    [op \in {"create_plan", "update_plan", "delete_plan", "create_issue",
             "update_issue", "delete_issue", "create_kpi", "update_kpi",
             "delete_kpi", "update_progress", "create_initiative",
             "update_initiative", "delete_initiative", "update_status"} |->
        CASE op \in {"create_plan", "update_plan", "delete_plan"}
                 -> "strategic_plans"
          [] op \in {"create_issue", "update_issue", "delete_issue"}
                 -> "strategic_issues"
          [] op \in {"create_kpi", "update_kpi", "delete_kpi",
                     "update_progress"}
                 -> "kpis"
          [] OTHER -> "initiatives"]

CreateOps ==
    {"create_plan", "create_issue", "create_kpi", "create_initiative"}

DeleteOps ==
    {"delete_plan", "delete_issue", "delete_kpi", "delete_initiative"}

\* get_by_id of the model the operation works on
GetById(d, op, id) ==
    CASE ServiceTable[op] = "strategic_plans" -> StrategicPlan_get_by_id(d, id)
      [] ServiceTable[op] = "strategic_issues"
             -> StrategicIssue_get_by_id(d, id)
      [] ServiceTable[op] = "kpis" -> KPI_get_by_id(d, id)
      [] OTHER -> Initiative_get_by_id(d, id)

\* C19: a service delete_* given an id that names no stored entity returns
\* (False, a not-found error) and deletes nothing; given the id of a stored
\* entity it returns (True, None), and get_by_id of that id then returns
\* nothing
C19_DeleteChecksExistence ==
    ret.op \in DeleteOps =>
        IF GetById(pre, ret.op, ret.args[1]) = None
        THEN /\ ret.value = Some(FALSE)
             /\ ret.error \in {Some(<<"plan not found">>),
                               Some(<<"issue not found">>),
                               Some(<<"kpi not found">>),
                               Some(<<"initiative not found">>)}
             /\ db = pre
        ELSE /\ ret.value = Some(TRUE)
             /\ ret.error = None
             /\ GetById(db, ret.op, ret.args[1]) = None

\* delete_kpi of a stored KPI returned (True, None); its issue is still there
C19_Witness ==
    /\ ret.op = "delete_kpi"
    /\ KPI_get_by_id(pre, ret.args[1]) # None
    /\ ret.value = Some(TRUE)
    /\ KPI_get_by_id(db, ret.args[1]) = None
    /\ db.strategic_issues # <<>>

\* the columns that the arguments after the id of an update set
UpdateColumns ==
    [op \in {"update_plan", "update_issue", "update_kpi", "update_progress",
             "update_initiative", "update_status"} |->
        CASE op = "update_plan" -> <<"name", "start_date", "end_date">>
          [] op = "update_issue" -> <<"name", "priority">>
          [] op = "update_kpi" -> <<"name", "target_value", "current_value">>
          [] op = "update_progress" -> <<"current_value">>
          [] op = "update_initiative"
                 -> <<"name", "status", "budget", "start_date", "end_date">>
          [] op = "update_status" -> <<"status">>]

\* the operation took effect: a create stored a new row under the id it
\* returns, a delete removed the row of its id, an update left the row of
\* its id with every value it was given
TookEffect ==
    LET table == ServiceTable[ret.op]
    IN  CASE ret.op \in CreateOps ->
                 /\ ret.value # None
                 /\ Val(ret.value) \in DOMAIN db[table] \ DOMAIN pre[table]
          [] ret.op \in DeleteOps ->
                 /\ Val(ret.args[1]) \in DOMAIN pre[table]
                 /\ Val(ret.args[1]) \notin DOMAIN db[table]
          [] OTHER ->
                 /\ ret.args[1] # None
                 /\ Val(ret.args[1]) \in DOMAIN db[table]
                 /\ \A k \in 1..Len(UpdateColumns[ret.op]) :
                        ret.args[k + 1] # None =>
                            db[table][Val(ret.args[1])]
                                     [UpdateColumns[ret.op][k]]
                                = ret.args[k + 1]

----------------------------------------------------------------------------
(* SpecOrder: the four create operations given any combination of valid    *)
(* and invalid inputs                                                      *)

OrderReturn(op, args, r) ==
    Call(Inserted(r.db) <= OrderMaxRows, op, args, r)

\* a name and no name
OrderNameArgs == {Some("a"), Some("")}

\* (start_date, end_date): none, an end before the start, no calendar date
OrderDateArgs == {<<None, None>>, <<Jan01, Dec31>>, <<Feb30, None>>}

OrderCreatePlan ==
    \E name \in OrderNameArgs, dates \in OrderDateArgs :
        OrderReturn("create_plan", <<name>> \o dates,
                    PlanService_create_plan(db, clock, name, None, dates[1],
                                            dates[2]))

OrderCreateIssue ==
    \E plan_id \in PlanIdArgs, name \in OrderNameArgs,
       priority \in {None, Some(0)} :
        OrderReturn("create_issue", <<plan_id, name, priority>>,
                    IssueService_create_issue(db, clock, plan_id, name, None,
                                              priority))

OrderCreateKpi ==
    \E issue_id \in IssueIdArgs, name \in OrderNameArgs,
       target_value \in {None, NotANumber},
       current_value \in {None, NotANumber} :
        OrderReturn("create_kpi",
                    <<issue_id, name, target_value, current_value>>,
                    KPIService_create_kpi(db, clock, issue_id, name, None,
                                          target_value, current_value, None))

OrderCreateInitiative ==
    \E issue_id \in IssueIdArgs, name \in OrderNameArgs,
       status \in {None, Some("InvalidValue")}, budget \in {None, Some(-1)},
       dates \in OrderDateArgs :
        OrderReturn("create_initiative",
                    <<issue_id, name, status, budget>> \o dates,
                    InitiativeService_create_initiative(
                        db, clock, issue_id, name, None, status, budget,
                        dates[1], dates[2]))

NextOrder ==
    \/ OrderCreatePlan
    \/ OrderCreateIssue
    \/ OrderCreateKpi
    \/ OrderCreateInitiative
    \/ Exit

SpecOrder == Init /\ [][NextOrder]_vars

\* what is wrong with one input of a create, from the input alone
ParentMissing(table, id) == id = None \/ Val(id) \notin DOMAIN pre[table]

NameMissing(name) == name = None \/ name = Some("")

StatusUnknown(status) == status # None /\ Val(status) \notin VALID_STATUSES

\* the value is given and is no number, or is below the minimum (boxed)
NumberBad(value, min) ==
    /\ value # None
    /\ \/ value = NotANumber
       \/ IsNumber(value) /\ min # None /\ Val(value) < Val(min)

DatesBad(start_date, end_date) ==
    \/ start_date # None /\ ~WellFormed(start_date)
    \/ end_date # None /\ ~WellFormed(end_date)
    \/ /\ WellFormed(start_date)
       /\ WellFormed(end_date)
       /\ DateKey(Val(end_date)) < DateKey(Val(start_date))

DateTags ==
    {"start date: ", "end date: ", "end date must not precede start date"}

\* the checks of the create under way in the order claimed, each with
\* whether its input fails it and how its error message begins
Checks ==
    LET a == ret.args
    IN  CASE ret.op = "create_plan" ->
                 <<[failed |-> NameMissing(a[1]), tags |-> {"plan name: "}],
                   [failed |-> DatesBad(a[2], a[3]), tags |-> DateTags]>>
          [] ret.op = "create_issue" ->
                 <<[failed |-> ParentMissing("strategic_plans", a[1]),
                    tags |-> {"plan: "}],
                   [failed |-> NameMissing(a[2]), tags |-> {"issue name: "}],
                   [failed |-> NumberBad(a[3], Some(1)),
                    tags |-> {"priority: "}]>>
          [] ret.op = "create_kpi" ->
                 <<[failed |-> ParentMissing("strategic_issues", a[1]),
                    tags |-> {"issue: "}],
                   [failed |-> NameMissing(a[2]), tags |-> {"kpi name: "}],
                   [failed |-> NumberBad(a[3], None),
                    tags |-> {"target value: "}],
                   [failed |-> NumberBad(a[4], None),
                    tags |-> {"current value: "}]>>
          [] ret.op = "create_initiative" ->
                 <<[failed |-> ParentMissing("strategic_issues", a[1]),
                    tags |-> {"issue: "}],
                   [failed |-> NameMissing(a[2]),
                    tags |-> {"initiative name: "}],
                   [failed |-> StatusUnknown(a[3]), tags |-> {"status: "}],
                   [failed |-> NumberBad(a[4], Some(0)),
                    tags |-> {"budget: "}],
                   [failed |-> DatesBad(a[5], a[6]), tags |-> DateTags]>>

Failing == {k \in 1..Len(Checks) : Checks[k].failed}

\* C21: a service create_* checks the parent, then the name, then the
\* format constraints, and stops at the first check that fails: with
\* several invalid inputs the error returned is that of the earliest
\* failing check and nothing is written; with none it stores the row
C21_FirstFailingCheckReported ==
    ret.op \in CreateOps =>
        IF Failing = {}
        THEN /\ ret.error = None
             /\ ret.value # None
             /\ Val(ret.value) \in
                    DOMAIN db[ServiceTable[ret.op]]
                        \ DOMAIN pre[ServiceTable[ret.op]]
        ELSE /\ ret.error # None
             /\ Head(Val(ret.error)) \in
                    Checks[CHOOSE k \in Failing :
                               \A other \in Failing : k <= other].tags
             /\ ret.value = None
             /\ db = pre

\* create_initiative under a stored issue with no name, an unknown status,
\* a negative budget and an end before the start reported the name
C21_Witness ==
    /\ ret.op = "create_initiative"
    /\ Failing = {2, 3, 4, 5}
    /\ Head(Val(ret.error)) = "initiative name: "

----------------------------------------------------------------------------
(* SpecBudget: initiatives created and updated with every kind of budget   *)

BudgetReturn(op, args, r) ==
    Call(Inserted(r.db) <= BudgetMaxRows, op, args, r)

\* no budget, zero, a positive and a negative number, a string that is no
\* number, and a string float() converts but SQLite keeps as text
BudgetArgs == {None, Some(0), Some(2), Some(-1), NotANumber, TextFloat}

BudgetCreatePlan ==
    BudgetReturn("create_plan", <<Some("a")>>,
                 PlanService_create_plan(db, clock, Some("a"), None, None,
                                         None))

BudgetCreateIssue ==
    \E plan_id \in PlanIdArgs :
        BudgetReturn("create_issue", <<plan_id>>,
                     IssueService_create_issue(db, clock, plan_id, Some("a"),
                                               None, None))

BudgetCreateInitiative ==
    \E issue_id \in IssueIdArgs, budget \in BudgetArgs :
        BudgetReturn("create_initiative", <<issue_id, budget>>,
                     InitiativeService_create_initiative(
                         db, clock, issue_id, Some("a"), None, None, budget,
                         None, None))

BudgetUpdateInitiative ==
    \E initiative_id \in InitiativeIdArgs, budget \in BudgetArgs :
        BudgetReturn("update_initiative", <<initiative_id, budget>>,
                     InitiativeService_update_initiative(
                         db, clock, initiative_id, None, None, None, budget,
                         None, None))

NextBudget ==
    \/ BudgetCreatePlan
    \/ BudgetCreateIssue
    \/ BudgetCreateInitiative
    \/ BudgetUpdateInitiative
    \/ Exit

SpecBudget == Init /\ [][NextBudget]_vars

\* C22: every stored initiative's budget is absent or a number >= 0, and a
\* create_initiative or update_initiative given a negative or non-numeric
\* budget returns an error
C22_BudgetAbsentOrNonNegative ==
    /\ \A id \in DOMAIN db.initiatives :
           LET budget == db.initiatives[id].budget
           IN  budget = None \/ (IsNumber(budget) /\ Val(budget) >= 0)
    /\ ret.op \in {"create_initiative", "update_initiative"} =>
           (NumberBad(ret.args[2], Some(0)) => ret.error # None)

----------------------------------------------------------------------------
(* SpecNames: the service create and update operations given a name, the   *)
(* empty name and no name                                                  *)

NamesReturn(op, args, r) ==
    Call(Inserted(r.db) <= NamesMaxRows, op, args, r)

CreateNameArgs == {Some("a"), Some(""), None}

\* None leaves the name as it is
UpdateNameArgs == {Some("b"), Some(""), None}

NamesCreatePlan ==
    \E name \in CreateNameArgs :
        NamesReturn("create_plan", <<None, name>>,
                    PlanService_create_plan(db, clock, name, None, None,
                                            None))

NamesCreateIssue ==
    \E plan_id \in PlanIdArgs, name \in CreateNameArgs :
        NamesReturn("create_issue", <<plan_id, name>>,
                    IssueService_create_issue(db, clock, plan_id, name, None,
                                              None))

NamesCreateKpi ==
    \E issue_id \in IssueIdArgs, name \in CreateNameArgs :
        NamesReturn("create_kpi", <<issue_id, name>>,
                    KPIService_create_kpi(db, clock, issue_id, name, None,
                                          None, None, None))

NamesCreateInitiative ==
    \E issue_id \in IssueIdArgs, name \in CreateNameArgs :
        NamesReturn("create_initiative", <<issue_id, name>>,
                    InitiativeService_create_initiative(
                        db, clock, issue_id, name, None, None, None, None,
                        None))

NamesUpdatePlan ==
    \E plan_id \in PlanIdArgs, name \in UpdateNameArgs :
        NamesReturn("update_plan", <<plan_id, name>>,
                    PlanService_update_plan(db, clock, plan_id, name, None,
                                            None, None))

NamesUpdateIssue ==
    \E issue_id \in IssueIdArgs, name \in UpdateNameArgs :
        NamesReturn("update_issue", <<issue_id, name>>,
                    IssueService_update_issue(db, clock, issue_id, name, None,
                                              None))

NamesUpdateKpi ==
    \E kpi_id \in IdsUpTo(db.sqlite_sequence.kpis),
       name \in UpdateNameArgs :
        NamesReturn("update_kpi", <<kpi_id, name>>,
                    KPIService_update_kpi(db, clock, kpi_id, name, None, None,
                                          None, None))

NamesUpdateInitiative ==
    \E initiative_id \in InitiativeIdArgs, name \in UpdateNameArgs :
        NamesReturn("update_initiative", <<initiative_id, name>>,
                    InitiativeService_update_initiative(
                        db, clock, initiative_id, name, None, None, None,
                        None, None))

NextNames ==
    \/ NamesCreatePlan
    \/ NamesCreateIssue
    \/ NamesCreateKpi
    \/ NamesCreateInitiative
    \/ NamesUpdatePlan
    \/ NamesUpdateIssue
    \/ NamesUpdateKpi
    \/ NamesUpdateInitiative
    \/ Exit

SpecNames == Init /\ [][NextNames]_vars

NameUpdateOps == {"update_plan", "update_issue", "update_kpi",
                  "update_initiative"}

\* C23: every stored plan, issue, KPI and initiative has a present,
\* non-empty name; a create given no name or the empty name, and an update
\* given the empty name, return an error and write nothing
C23_NamesPresentAndNonEmpty ==
    /\ \A table \in Tables : \A id \in DOMAIN db[table] :
           ~NameMissing(db[table][id].name)
    /\ ret.op \in CreateOps /\ NameMissing(ret.args[2]) =>
           ret.error # None /\ ret.value = None /\ db = pre
    /\ ret.op \in NameUpdateOps /\ ret.args[2] = Some("") =>
           ret.error # None /\ ret.value = Some(FALSE) /\ db = pre

\* an update of a stored KPI with the empty name was refused for the name
C23_Witness ==
    /\ ret.op = "update_kpi"
    /\ ret.args[2] = Some("")
    /\ ret.args[1] # None
    /\ Val(ret.args[1]) \in DOMAIN db.kpis
    /\ ret.error # None
    /\ Head(Val(ret.error)) = "kpi name: "

----------------------------------------------------------------------------
(* SpecRoundTrip: to_dict and from_dict of the four entity types applied   *)
(* to entities and to storage rows; the store is not involved              *)

\* what the system assigns: all absent on an entity not yet saved, all
\* present on a row and on an entity loaded from one
Assigned ==
    {[id |-> None, created_at |-> None, updated_at |-> None],
     [id |-> Some(1), created_at |-> Some(1), updated_at |-> Some(1)]}

Stored == [id |-> Some(1), created_at |-> Some(1), updated_at |-> Some(1)]

PlanFields ==
    [name : {Some("a")}, description : {None, Some("d")},
     start_date : {None, Dec31}, end_date : {None, Jan01}]

IssueFields ==
    [plan_id : {Some(1)}, name : {Some("a")}, description : {None, Some("d")},
     priority : {None, Some(1)}]

KpiFields ==
    [issue_id : {Some(1)}, name : {Some("a")}, description : {None, Some("d")},
     target_value : {None, Some(2)}, current_value : {None, Some(0)},
     unit : {None, Some("%")}]

\* the status column is nullable
InitiativeFields ==
    [issue_id : {Some(1)}, name : {Some("a")}, description : {None, Some("d")},
     status : {None, Some(""), Some(STATUS_NOT_STARTED),
               Some(STATUS_COMPLETED)},
     budget : {None, Some(2)}, start_date : {None, Dec31},
     end_date : {None, Jan01}]

RoundTripReturn(op, table, input, output) ==
    Call(TRUE, op, <<table, input>>, Ok(db, Some(output), None))

\* entity -> to_dict -> from_dict
PlanRoundTrip ==
    \E a \in Assigned, f \in PlanFields :
        LET self == a @@ f
        IN  RoundTripReturn("from_dict(to_dict)", "strategic_plans", self,
                StrategicPlan_from_dict(StrategicPlan_to_dict(self)))

IssueRoundTrip ==
    \E a \in Assigned, f \in IssueFields :
        LET self == a @@ f
        IN  RoundTripReturn("from_dict(to_dict)", "strategic_issues", self,
                StrategicIssue_from_dict(StrategicIssue_to_dict(self)))

KpiRoundTrip ==
    \E a \in Assigned, f \in KpiFields :
        LET self == a @@ f
        IN  RoundTripReturn("from_dict(to_dict)", "kpis", self,
                KPI_from_dict(KPI_to_dict(self)))

InitiativeRoundTrip ==
    \E a \in Assigned, f \in InitiativeFields :
        LET self == Initiative_init(a @@ f)
        IN  RoundTripReturn("from_dict(to_dict)", "initiatives", self,
                Initiative_from_dict(Initiative_to_dict(self)))

\* update_status assigns initiative.status = status on a loaded entity,
\* also when status is None
InitiativeAssignedRoundTrip ==
    \E f \in InitiativeFields, status \in {None, Some(STATUS_DELAYED)} :
        LET self == [Initiative_init(Stored @@ f) EXCEPT !.status = status]
        IN  RoundTripReturn("from_dict(to_dict)", "initiatives", self,
                Initiative_from_dict(Initiative_to_dict(self)))

\* storage row -> from_dict -> to_dict
PlanRowTrip ==
    \E f \in PlanFields :
        LET data == Stored @@ f
        IN  RoundTripReturn("to_dict(from_dict)", "strategic_plans", data,
                StrategicPlan_to_dict(StrategicPlan_from_dict(data)))

IssueRowTrip ==
    \E f \in IssueFields :
        LET data == Stored @@ f
        IN  RoundTripReturn("to_dict(from_dict)", "strategic_issues", data,
                StrategicIssue_to_dict(StrategicIssue_from_dict(data)))

KpiRowTrip ==
    \E f \in KpiFields :
        LET data == Stored @@ f
        IN  RoundTripReturn("to_dict(from_dict)", "kpis", data,
                KPI_to_dict(KPI_from_dict(data)))

InitiativeRowTrip ==
    \E f \in InitiativeFields :
        LET data == Stored @@ f
        IN  RoundTripReturn("to_dict(from_dict)", "initiatives", data,
                Initiative_to_dict(Initiative_from_dict(data)))

NextRoundTrip ==
    \/ PlanRoundTrip
    \/ IssueRoundTrip
    \/ KpiRoundTrip
    \/ InitiativeRoundTrip
    \/ InitiativeAssignedRoundTrip
    \/ PlanRowTrip
    \/ IssueRowTrip
    \/ KpiRowTrip
    \/ InitiativeRowTrip
    \/ Exit

SpecRoundTrip == Init /\ [][NextRoundTrip]_vars

RoundTrips == {"from_dict(to_dict)", "to_dict(from_dict)"}

\* the fields of the input under way, an absent or empty status read as
\* NOT_STARTED
StatusDefaulted ==
    LET input == ret.args[2]
    IN  IF ret.args[1] = "initiatives" /\ input.status \in {None, Some("")}
        THEN [input EXCEPT !.status = Some(STATUS_NOT_STARTED)]
        ELSE input

\* C24 as stated: to_dict then from_dict gives an entity equal to the
\* original in every field, and from_dict then to_dict gives every field
\* of a storage row unchanged
C24_RoundTripLossless ==
    ret.op \in RoundTrips => Val(ret.value) = ret.args[2]

\* C24: for plans, issues and KPIs both round trips return every field
\* unchanged; for initiatives they return every field unchanged except
\* that an absent or empty status comes back as NOT_STARTED
C24_RoundTripUpToStatusDefault ==
    ret.op \in RoundTrips =>
        /\ DOMAIN Val(ret.value) = Columns(ret.args[1])
        /\ Val(ret.value) = StatusDefaulted

\* an initiative row whose status is NULL came back with NOT_STARTED
C24_Witness ==
    /\ ret.op = "to_dict(from_dict)"
    /\ ret.args[1] = "initiatives"
    /\ ret.args[2].status = None
    /\ ret.args[2].budget = Some(2)
    /\ Val(ret.value).status = Some(STATUS_NOT_STARTED)
    /\ Val(ret.value).budget = Some(2)

----------------------------------------------------------------------------
(* SpecGateway: the primitives of a Database constructed on a path, from   *)
(* a file without tables on; a process that exits leaves the file, and the *)
(* next one constructs its Database anew                                   *)

\* Database(path) in a process, not yet connected
Constructed(tables) ==
    Database_init([instances |-> 0, connections |-> 0, conn |-> None,
                   is_initialized |-> FALSE, tables |-> tables])

InitGateway ==
    /\ db = EmptyDb
    /\ clock = 1
    /\ pre = EmptyDb
    /\ ret = Idle
    /\ gateway = Constructed(FALSE)

\* a primitive or a connection method returns or raises
GatewayReturn(op, args, r) ==
    /\ ret.op = "idle"
    /\ Inserted(r.db) <= GatewayMaxRows
    /\ r.gateway.connections <= MaxConnections
    /\ db' = r.db
    /\ pre' = db
    /\ gateway' = r.gateway
    /\ ret' = [op |-> op, args |-> args, value |-> r.value,
               error |-> None, raised |-> r.raised]
    /\ UNCHANGED clock

GatewayConnect ==
    GatewayReturn("connect", <<>>,
                  [gateway |-> Database_connect(gateway), db |-> db,
                   value |-> None, raised |-> None])

GatewayInitializeDb ==
    LET r == Database_initialize_db(gateway)
    IN  GatewayReturn("initialize_db", <<>>,
                      [gateway |-> r.gateway, db |-> db, value |-> None,
                       raised |-> r.raised])

\* execute("SELECT COUNT(*) FROM strategic_plans")
GatewayExecute ==
    GatewayReturn("execute", <<>>,
                  Cursor(Lazily(gateway, TRUE), db,
                         [db |-> db, value |-> None, raised |-> None]))

GatewayFetchOne ==
    \E id \in PlanIdArgs :
        GatewayReturn("fetch_one", <<id>>,
                      Cursor(Lazily(gateway, TRUE), db,
                             [db |-> db,
                              value |-> Database_fetch_one(
                                            db, "strategic_plans", id),
                              raised |-> None]))

\* fetch_all("SELECT * FROM strategic_issues WHERE plan_id = ? ORDER BY
\* priority, id")
GatewayFetchAll ==
    \E plan_id \in PlanIdArgs :
        GatewayReturn("fetch_all", <<plan_id>>,
                      Cursor(Lazily(gateway, TRUE), db,
                             [db |-> db,
                              value |-> Some(StrategicIssue_get_by_plan_id(
                                                 db, plan_id)),
                              raised |-> None]))

GatewayInsert ==
    \E data \in {[name |-> Some("a")],
                  [name |-> Some("a"), plan_id |-> Some(1)]} :
        LET t == IF "plan_id" \in DOMAIN data THEN "strategic_issues"
                 ELSE "strategic_plans"
        IN  GatewayReturn("insert", <<t, data>>,
                          Cursor(Lazily(gateway, TRUE), db,
                                 Database_insert(db, clock, t, data)))

\* update returns False on empty data before it looks at the connection
GatewayUpdate ==
    \E id \in PlanIdArgs, data \in {<<>>, [name |-> Some("b")]} :
        LET r == Database_update(db, "strategic_plans", id, data)
        IN  GatewayReturn("update", <<id, data>>,
                IF DOMAIN data = {}
                THEN [gateway |-> gateway, db |-> db, value |-> Some(FALSE),
                      raised |-> None]
                ELSE Cursor(Lazily(gateway, FALSE), db,
                            [db |-> r.db, value |-> Some(r.value),
                             raised |-> r.raised]))

GatewayDelete ==
    \E id \in PlanIdArgs :
        LET r == Database_delete(db, "strategic_plans", id)
        IN  GatewayReturn("delete", <<id>>,
                          Cursor(Lazily(gateway, FALSE), db,
                                 [db |-> r.db, value |-> Some(r.value),
                                  raised |-> None]))

\* the caller goes on in the same process
Resume ==
    /\ ret.op # "idle"
    /\ ret' = Idle
    /\ pre' = db
    /\ UNCHANGED <<db, clock, gateway>>

\* the process exits; the next one constructs a Database on the same file
GatewayExit ==
    /\ ret.op # "idle"
    /\ ret' = Idle
    /\ pre' = db
    /\ gateway' = Constructed(gateway.tables)
    /\ UNCHANGED <<db, clock>>

NextGateway ==
    \/ GatewayConnect
    \/ GatewayInitializeDb
    \/ GatewayExecute
    \/ GatewayFetchOne
    \/ GatewayFetchAll
    \/ GatewayInsert
    \/ GatewayUpdate
    \/ GatewayDelete
    \/ Resume
    \/ GatewayExit

SpecGateway == InitGateway /\ [][NextGateway]_vars

Primitives ==
    {"execute", "fetch_one", "fetch_all", "insert", "update", "delete"}

\* C25: after any of the six primitives the Database is connected and the
\* four tables exist, the statement having run on them (no "no such
\* table" error); and initialize_db leaves the tables there are, and
\* their rows, as they were
C25_PrimitivesConnectAndCreateTables ==
    /\ ret.op \in Primitives =>
           /\ gateway.conn # None
           /\ gateway.tables
           /\ ret.raised # Some("OperationalError")
    /\ ret.op = "initialize_db" => gateway.tables /\ db = pre

----------------------------------------------------------------------------
(* SpecSingleton: get_db(), close() and operations of the plan repository  *)
(* and service in a process, each reaching the store through get_db()      *)

\* a process that has not called get_db(): _db_instance is None
Started(tables) ==
    [instances |-> 0, connections |-> 0, conn |-> None,
     is_initialized |-> FALSE, tables |-> tables]

InitSingleton ==
    /\ db = EmptyDb
    /\ clock = 1
    /\ pre = EmptyDb
    /\ ret = Idle
    /\ gateway = Started(FALSE)

\* an operation whose outcome on an open connection is r: it calls
\* get_db() and runs its first statement when it touches the store at all
Through(g, d, touches, r) ==
    LET c == Cursor(Lazily(get_db(g), TRUE), d, r)
    IN  IF touches
        THEN [gateway |-> c.gateway, db |-> c.db, value |-> c.value,
              error |-> IF c.raised = None THEN r.error ELSE None,
              raised |-> c.raised]
        ELSE [gateway |-> g, db |-> d, value |-> r.value, error |-> r.error,
              raised |-> r.raised]

SingletonReturn(op, args, r) ==
    /\ ret.op = "idle"
    /\ Inserted(r.db) <= SingletonMaxRows
    /\ r.gateway.connections <= MaxConnections
    /\ db' = r.db
    /\ pre' = db
    /\ gateway' = r.gateway
    /\ ret' = [op |-> op, args |-> args, value |-> r.value,
               error |-> r.error, raised |-> r.raised]
    /\ UNCHANGED clock

SingletonGetDb ==
    SingletonReturn("get_db", <<>>,
                    [gateway |-> get_db(gateway), db |-> db, value |-> None,
                     error |-> None, raised |-> None])

\* get_db().close()
SingletonClose ==
    SingletonReturn("close", <<>>,
                    [gateway |-> Database_close(get_db(gateway)), db |-> db,
                     value |-> None, error |-> None, raised |-> None])

\* a name that fails validation returns before the store is touched
SingletonCreatePlan ==
    \E name \in {Some("a"), Some("")} :
        LET r == PlanService_create_plan(db, clock, name, None, None, None)
        IN  SingletonReturn("create_plan", <<name>>,
                            Through(gateway, db, r.error = None, r))

SingletonGetById ==
    \E plan_id \in PlanIdArgs :
        SingletonReturn("StrategicPlan.get_by_id", <<plan_id>>,
                        Through(gateway, db, TRUE,
                                Ok(db, StrategicPlan_get_by_id(db, plan_id),
                                   None)))

SingletonDeletePlan ==
    \E plan_id \in PlanIdArgs :
        SingletonReturn("delete_plan", <<plan_id>>,
                        Through(gateway, db, TRUE,
                                PlanService_delete_plan(db, plan_id)))

\* the process exits; the next one starts without a Database
SingletonExit ==
    /\ ret.op # "idle"
    /\ ret' = Idle
    /\ pre' = db
    /\ gateway' = Started(gateway.tables)
    /\ UNCHANGED <<db, clock>>

NextSingleton ==
    \/ SingletonGetDb
    \/ SingletonClose
    \/ SingletonCreatePlan
    \/ SingletonGetById
    \/ SingletonDeletePlan
    \/ Resume
    \/ SingletonExit

SpecSingleton == InitSingleton /\ [][NextSingleton]_vars

\* the operation under way went to the store
Touched ==
    \/ ret.op \in {"StrategicPlan.get_by_id", "delete_plan"}
    \/ ret.op = "create_plan" /\ ret.error = None

\* C26: a process creates at most one Database and one connection, both
\* on its first get_db() call, which every operation that reaches the
\* store makes; and once the connection is closed none is opened again:
\* an operation that reaches the store raises and changes nothing
C26_OneDatabaseOneConnection ==
    /\ gateway.instances <= 1
    /\ gateway.connections = gateway.instances
    /\ ret.op \in {"get_db", "close"} \/ Touched => gateway.instances = 1
    /\ gateway.conn = Some("closed") /\ Touched =>
           ret.raised = Some("ProgrammingError") /\ db = pre

\* after close() a create_plan with a valid name raised and the process
\* still has the one connection it opened
C26_Witness ==
    /\ ret.op = "create_plan"
    /\ ret.args = <<Some("a")>>
    /\ gateway.conn = Some("closed")
    /\ ret.raised = Some("ProgrammingError")
    /\ gateway.connections = 1
    /\ DOMAIN db.strategic_plans # {}

----------------------------------------------------------------------------
(* Deletion, checked under SpecSave *)

\* get_by_id of the model of the table
Fetched(d, table, id) ==
    CASE table = "strategic_plans" -> StrategicPlan_get_by_id(d, Some(id))
      [] table = "strategic_issues" -> StrategicIssue_get_by_id(d, Some(id))
      [] table = "kpis" -> KPI_get_by_id(d, Some(id))
      [] table = "initiatives" -> Initiative_get_by_id(d, Some(id))

\* the id was handed out by the table and its row is gone: ids are handed
\* out in order, each to a row inserted, so the row was deleted
Gone(d, table, id) ==
    /\ id \in 1..d.sqlite_sequence[table]
    /\ Fetched(d, table, id) = None

\* C27: once a row is deleted, directly or by cascade, get_by_id of its id
\* returns nothing in every later state: no insert is given the id again,
\* and save() on an entity that carries it returns the id, raises nothing
\* and leaves the store as it was
C27_DeletionIsPermanent ==
    [][/\ \A table \in Tables : \A id \in 1..db.sqlite_sequence[table] :
             Gone(db, table, id) => Gone(db', table, id)
       /\ \A op \in DOMAIN SaveTable :
             (/\ ret'.op = op
              /\ ret'.args[1] # None
              /\ Gone(db, SaveTable[op], Val(ret'.args[1])))
             => /\ ret'.value = ret'.args[1]
                /\ ret'.raised = None
                /\ db' = db]_vars

\* save() on an issue whose row went with its plan returned the id; the
\* id is still free and the plan's id has not been given to the later plan
C27_Witness ==
    /\ ret.op = "StrategicIssue.save"
    /\ ret.args[1] = Some(1)
    /\ ret.value = Some(1)
    /\ Gone(db, "strategic_issues", 1)
    /\ Gone(db, "strategic_plans", 1)
    /\ DOMAIN db.strategic_plans = {2}

----------------------------------------------------------------------------
(* SpecUpdate: the service updates on rows that have every field set, with *)
(* some arguments given and the others None                                *)

UpdateReturn(op, args, r) ==
    Call(Inserted(r.db) <= UpdateMaxRows, op, args, r)

UpdateCreatePlan ==
    UpdateReturn("create_plan", <<>>,
                 PlanService_create_plan(db, clock, Some("a"), Some("d"),
                                         Dec31, Jan01))

UpdateCreateIssue ==
    \E plan_id \in PlanIdArgs :
        UpdateReturn("create_issue", <<plan_id>>,
                     IssueService_create_issue(db, clock, plan_id, Some("a"),
                                               Some("d"), Some(1)))

UpdateCreateKpi ==
    \E issue_id \in IssueIdArgs :
        UpdateReturn("create_kpi", <<issue_id>>,
                     KPIService_create_kpi(db, clock, issue_id, Some("a"),
                                           Some("d"), Some(4), Some(1),
                                           Some("%")))

UpdateCreateInitiative ==
    \E issue_id \in IssueIdArgs :
        UpdateReturn("create_initiative", <<issue_id>>,
                     InitiativeService_create_initiative(
                         db, clock, issue_id, Some("a"), Some("d"),
                         Some(STATUS_IN_PROGRESS), Some(3), Dec31, Jan01))

\* the arguments of an update by the column each sets; None: not given
PlanData ==
    {[name |-> Some("b"), description |-> None, start_date |-> None,
      end_date |-> None],
     [name |-> None, description |-> Some("e"), start_date |-> None,
      end_date |-> Jan01]}

IssueData ==
    {[name |-> Some("b"), description |-> None, priority |-> None],
     [name |-> None, description |-> Some("e"), priority |-> Some(2)]}

KpiData ==
    {[name |-> Some("b"), description |-> None, target_value |-> None,
      current_value |-> Some(2), unit |-> None],
     [name |-> None, description |-> Some("e"), target_value |-> Some(5),
      current_value |-> None, unit |-> Some("h")]}

InitiativeData ==
    {[name |-> Some("b"), description |-> None, status |-> None,
      budget |-> Some(0), start_date |-> None, end_date |-> None],
     [name |-> None, description |-> Some("e"),
      status |-> Some(STATUS_COMPLETED), budget |-> None,
      start_date |-> Jan01, end_date |-> None]}

UpdatePlan ==
    \E plan_id \in PlanIdArgs, a \in PlanData :
        UpdateReturn("update_plan", <<plan_id, a>>,
                     PlanService_update_plan(db, clock, plan_id, a.name,
                                             a.description, a.start_date,
                                             a.end_date))

UpdateIssue ==
    \E issue_id \in IssueIdArgs, a \in IssueData :
        UpdateReturn("update_issue", <<issue_id, a>>,
                     IssueService_update_issue(db, clock, issue_id, a.name,
                                               a.description, a.priority))

UpdateKpi ==
    \E kpi_id \in IdsUpTo(db.sqlite_sequence.kpis), a \in KpiData :
        UpdateReturn("update_kpi", <<kpi_id, a>>,
                     KPIService_update_kpi(db, clock, kpi_id, a.name,
                                           a.description, a.target_value,
                                           a.current_value, a.unit))

UpdateInitiative ==
    \E initiative_id \in InitiativeIdArgs, a \in InitiativeData :
        UpdateReturn("update_initiative", <<initiative_id, a>>,
                     InitiativeService_update_initiative(
                         db, clock, initiative_id, a.name, a.description,
                         a.status, a.budget, a.start_date, a.end_date))

UpdateProgress ==
    \E kpi_id \in IdsUpTo(db.sqlite_sequence.kpis),
       current_value \in {Some(2), None} :
        UpdateReturn("update_progress",
                     <<kpi_id, [current_value |-> current_value]>>,
                     KPIService_update_progress(db, clock, kpi_id,
                                                current_value))

UpdateStatus ==
    \E initiative_id \in InitiativeIdArgs,
       status \in {Some(STATUS_COMPLETED), None} :
        UpdateReturn("update_status", <<initiative_id, [status |-> status]>>,
                     InitiativeService_update_status(db, clock, initiative_id,
                                                     status))

NextUpdate ==
    \/ UpdateCreatePlan
    \/ UpdateCreateIssue
    \/ UpdateCreateKpi
    \/ UpdateCreateInitiative
    \/ UpdatePlan
    \/ UpdateIssue
    \/ UpdateKpi
    \/ UpdateInitiative
    \/ UpdateProgress
    \/ UpdateStatus
    \/ Exit

SpecUpdate == Init /\ [][NextUpdate]_vars

UpdateOps == DOMAIN UpdateColumns

\* C28: a successful update, update_status or update_progress changes in
\* the row of its id only the fields given a non-None argument, and
\* updated_at; the id, the parent key, created_at and every field passed
\* as None keep their values, and every other row is as it was
C28_UpdateChangesOnlyGivenFields ==
    ret.op \in UpdateOps /\ ret.value = Some(TRUE) =>
        LET table == ServiceTable[ret.op]
            id == Val(ret.args[1])
            data == ret.args[2]
            given == {c \in DOMAIN data : data[c] # None}
        IN  /\ \A other \in Tables \ {table} : db[other] = pre[other]
            /\ DOMAIN db[table] = DOMAIN pre[table]
            /\ RowsKept(table, DOMAIN pre[table] \ {id})
            /\ \A c \in Columns(table) \ (given \cup {"updated_at"}) :
                   db[table][id][c] = pre[table][id][c]

----------------------------------------------------------------------------
(* Reordering all the issues of a plan, checked under SpecReorder *)

\* the call was reorder_priorities on a stored plan with a list that holds
\* every issue of the plan once and nothing else
ReorderOfAllIssues ==
    /\ ReorderOfOwnIssues
    /\ Len(ret.args[2]) = Cardinality(IssuesOfPlan(pre, ret.args[1]))
    /\ {ret.args[2][k] : k \in 1..Len(ret.args[2])}
           = IssuesOfPlan(pre, ret.args[1])

\* C29: reorder_priorities given a permutation of all the issue ids of the
\* plan succeeds; the priorities of the plan's issues are then exactly
\* 1..n, no two the same, and StrategicIssue.get_by_plan_id returns the
\* issues in the order of the list
C29_PermutationBecomesListingOrder ==
    ReorderOfAllIssues =>
        LET issue_ids == ret.args[2]
            listing == StrategicIssue_get_by_plan_id(db, ret.args[1])
            priority(i) == db.strategic_issues[i].priority
        IN  /\ ret.value = Some(TRUE)
            /\ ret.error = None
            /\ IssuesOfPlan(db, ret.args[1]) = IssuesOfPlan(pre, ret.args[1])
            /\ {priority(i) : i \in IssuesOfPlan(db, ret.args[1])}
                   = {Some(k) : k \in 1..Len(issue_ids)}
            /\ \A i, j \in IssuesOfPlan(db, ret.args[1]) :
                   priority(i) = priority(j) => i = j
            /\ Len(listing) = Len(issue_ids)
            /\ \A k \in 1..Len(issue_ids) :
                   Val(listing[k].id) = issue_ids[k]

\* the two issues of a plan, listed the one with the smaller id first,
\* were reordered with the other one first and are now listed in that order
C29_Witness ==
    /\ ReorderOfAllIssues
    /\ Len(ret.args[2]) = 2
    /\ ret.args[2][1] > ret.args[2][2]
    /\ Val(StrategicIssue_get_by_plan_id(pre, ret.args[1])[1].id)
           = ret.args[2][2]
    /\ Val(StrategicIssue_get_by_plan_id(db, ret.args[1])[1].id)
           = ret.args[2][1]

----------------------------------------------------------------------------
(* The aggregations of a plan compared, checked under SpecReports *)

\* where one of two aggregations returns field, the other returns it too,
\* with the same value
SameField(x, y, field) ==
    (x.raised = None \/ y.raised = None) =>
        /\ x.raised = None
        /\ y.raised = None
        /\ Val(x.value)[field] = Val(y.value)[field]

\* C30: for every stored plan, in every state, total_budget and
\* initiative_count are the same in what PlanService.get_plan_summary,
\* ReportService.generate_plan_summary and
\* ReportService.generate_initiative_summary return, and kpi_count is the
\* same in what generate_plan_summary and generate_kpi_summary return
C30_AggregationsAgree ==
    \A plan_id \in DOMAIN db.strategic_plans :
        LET summary == PlanService_get_plan_summary(db, Some(plan_id))
            plan_report ==
                ReportService_generate_plan_summary(db, Some(plan_id))
            initiative_report ==
                ReportService_generate_initiative_summary(db, Some(plan_id))
            kpi_report ==
                ReportService_generate_kpi_summary(db, Some(plan_id))
        IN  /\ \A field \in {"total_budget", "initiative_count"} :
                   /\ SameField(summary, plan_report, field)
                   /\ SameField(plan_report, initiative_report, field)
                   /\ SameField(summary, initiative_report, field)
            /\ SameField(plan_report, kpi_report, "kpi_count")

============================================================================
